---- MODULE Spec2Model ----
(***************************************************************************)
(* Software occlusion-culling rasterizer (SoftwareRenderer): near-plane    *)
(* clipper, scanline rasterizer into a w-buffer, and the occlusion probe.  *)
(*                                                                         *)
(* JavaScript numbers are modelled as exact rationals <<n, d>> in lowest   *)
(* terms (d > 0), extended with the IEEE special values produced by a      *)
(* division by zero: NaN = <<0,0>>, +Infinity = <<1,0>>,                   *)
(* -Infinity = <<-1,0>>.  Rounding to float32/float64 and the sign of     *)
(* zero are not modelled.                                                  *)
(***************************************************************************)
EXTENDS Integers, Sequences, FiniteSets, TLC

VARIABLES
    depthData,        \* this._depthData : pixel index -> depth (1/w)
    depthClear,       \* this._depthClear
    pc,               \* "idle" | "render" | "cull" : the call in progress
    renderList,       \* argument of render()
    renderIdx,        \* loop variable i of render()
    cullList,         \* argument of performOcclusionCulling()
    cullIdx,          \* loop variable i of performOcclusionCulling()
    cull,             \* the function-scoped `var cull`
    visibleEntities,  \* the list built by performOcclusionCulling()
    depthAtCall,      \* history: depthData when the call in progress began
    probed,           \* history: positions of cullList a probe was run for
    pushed,           \* history: positions of cullList pushed to visibleEntities
    clipIn,           \* clipper harness: the camera-space triangle handed in
    clipOut,          \* clipper harness: what the clipper produced for it
    probeOut,         \* triangle harness: the verdict of the probe of clipIn
    instance          \* what `new SoftwareRenderer(parameters)` produced

vars == <<depthData, depthClear, pc, renderList, renderIdx, cullList, cullIdx,
          cull, visibleEntities, depthAtCall, probed, pushed, clipIn, clipOut,
          probeOut, instance>>

rendererVars == <<depthData, depthClear, pc, renderList, renderIdx, cullList,
                  cullIdx, cull, visibleEntities, depthAtCall, probed, pushed>>

-----------------------------------------------------------------------------
(* Numbers *)

Abs(k) == IF k < 0 THEN -k ELSE k

Sign(k) == IF k > 0 THEN 1 ELSE IF k < 0 THEN -1 ELSE 0

RECURSIVE GCD(_, _)
GCD(a, b) == IF b = 0 THEN a ELSE GCD(b, a % b)

\* lowest terms; a zero denominator keeps only the sign of the numerator
Norm(n, d) ==
    IF d = 0 THEN <<Sign(n), 0>>
    ELSE LET s == IF d < 0 THEN -1 ELSE 1
             g == GCD(Abs(n), Abs(d))
         IN  <<(s * n) \div g, (s * d) \div g>>

I(k) == <<k, 1>>
Q(n, d) == Norm(n, d)
NaN == <<0, 0>>
PosInf == <<1, 0>>

IsNaN(a) == a[1] = 0 /\ a[2] = 0
IsFinite(a) == a[2] # 0

Add(a, b) ==
    IF a[2] = 0 /\ b[2] = 0
    THEN (IF a[1] = b[1] THEN a ELSE NaN)
    ELSE Norm(a[1] * b[2] + b[1] * a[2], a[2] * b[2])

Neg(a) == <<-a[1], a[2]>>
Sub(a, b) == Add(a, Neg(b))
Mul(a, b) == Norm(a[1] * b[1], a[2] * b[2])
Inv(a) == IF a[1] > 0 THEN <<a[2], a[1]>>
          ELSE IF a[1] < 0 THEN <<-a[2], -a[1]>>
          ELSE IF a[2] = 0 THEN NaN ELSE PosInf
Div(a, b) == Mul(a, Inv(b))

\* comparisons: every comparison with NaN is false
Lt(a, b) == /\ ~IsNaN(a)
            /\ ~IsNaN(b)
            /\ IF a[2] = 0 /\ b[2] = 0 THEN a[1] < b[1]
               ELSE a[1] * b[2] < b[1] * a[2]
Gt(a, b) == Lt(b, a)
Le(a, b) == ~IsNaN(a) /\ ~IsNaN(b) /\ ~Lt(b, a)

\* Math.floor / Math.ceil / Math.max
Floor(a) == IF a[2] = 0 THEN a ELSE I(a[1] \div a[2])
Ceil(a) == IF a[2] = 0 THEN a ELSE I(-((-a[1]) \div a[2]))
Max(a, b) == IF IsNaN(a) \/ IsNaN(b) THEN NaN ELSE IF Lt(a, b) THEN b ELSE a

\* (1.0 - t) * a + t * b
Lerp(t, a, b) == Add(Mul(Sub(I(1), t), a), Mul(t, b))

-----------------------------------------------------------------------------
(* Construction parameters *)

width == 4
height == 4
near == 1
far == 100

_clipX == width - 1
_clipY == height - 1
numOfPixels == width * height
Pixels == 0 .. (numOfPixels - 1)

\* function SoftwareRenderer(parameters): the fields the constructor stores.
\* The frame buffer is new ArrayBuffer(colorBytes + depthBytes * 2) with
\* colorBytes = depthBytes = numOfPixels * 4, which throws a RangeError for a
\* negative length; nothing else in the constructor looks at the parameters.
SoftwareRenderer(parameters) ==
    IF (parameters.width * parameters.height) * 4
         + (parameters.width * parameters.height) * 4 * 2 < 0
    THEN [thrown |-> "RangeError"]
    ELSE [thrown |-> "none",
          width |-> parameters.width,
          height |-> parameters.height,
          _clipX |-> parameters.width - 1,
          _clipY |-> parameters.height - 1,
          camera |-> parameters.camera,
          numOfPixels |-> parameters.width * parameters.height]

\* the renderer of the scene
SceneInstance ==
    SoftwareRenderer([width |-> width, height |-> height,
                      camera |-> [present |-> TRUE, near |-> near, far |-> far]])

-----------------------------------------------------------------------------
(* Vertices are <<x, y, z, w>> (Vector4.data).  The camera sits at the     *)
(* origin looking down -Z, so the view matrix is the identity and an       *)
(* entity's world transform is a translation.                              *)

V(x, y, z) == <<I(x), I(y), I(z), I(1)>>

\* combinedMatrix.applyPost(tempVertex): translation by the entity position
applyPostWorld(t, p) == <<Add(p[1], t[1]), Add(p[2], t[2]), Add(p[3], t[3]), p[4]>>

\* cameraProjectionMatrix.applyPost(v): symmetric 90-degree perspective,
\* x' = x, y' = y, z' = ((f+n) z + 2fn)/(n-f), w' = -z
applyPostProjection(v) ==
    <<v[1], v[2],
      Div(Add(Mul(I(far + near), v[3]), I(2 * far * near)), I(near - far)),
      Neg(v[3])>>

\* the same test with `dot >= 0.0`
_isBackFacingCameraViewSpace_nonneg(v1, v2, v3) ==
    LET e1 == <<Sub(v2[1], v1[1]), Sub(v2[2], v1[2]), Sub(v2[3], v1[3])>>
        e2 == <<Sub(v3[1], v1[1]), Sub(v3[2], v1[2]), Sub(v3[3], v1[3])>>
        f0 == Sub(Mul(e2[3], e1[2]), Mul(e2[2], e1[3]))
        f1 == Sub(Mul(e2[1], e1[3]), Mul(e2[3], e1[1]))
        f2 == Sub(Mul(e2[2], e1[1]), Mul(e2[1], e1[2]))
        dot == Add(Add(Mul(f0, v1[1]), Mul(f1, v1[2])), Mul(f2, v1[3]))
    IN  ~Lt(dot, I(0))

\* the same test with `dot < 0.0`
_isBackFacingCameraViewSpace_reversed(v1, v2, v3) ==
    LET e1 == <<Sub(v2[1], v1[1]), Sub(v2[2], v1[2]), Sub(v2[3], v1[3])>>
        e2 == <<Sub(v3[1], v1[1]), Sub(v3[2], v1[2]), Sub(v3[3], v1[3])>>
        f0 == Sub(Mul(e2[3], e1[2]), Mul(e2[2], e1[3]))
        f1 == Sub(Mul(e2[1], e1[3]), Mul(e2[3], e1[1]))
        f2 == Sub(Mul(e2[2], e1[1]), Mul(e2[1], e1[2]))
        dot == Add(Add(Mul(f0, v1[1]), Mul(f1, v1[2])), Mul(f2, v1[3]))
    IN  Lt(dot, I(0))

_isBackFacingCameraViewSpace(v1, v2, v3) ==
    LET e1 == <<Sub(v2[1], v1[1]), Sub(v2[2], v1[2]), Sub(v2[3], v1[3])>>
        e2 == <<Sub(v3[1], v1[1]), Sub(v3[2], v1[2]), Sub(v3[3], v1[3])>>
        f0 == Sub(Mul(e2[3], e1[2]), Mul(e2[2], e1[3]))
        f1 == Sub(Mul(e2[1], e1[3]), Mul(e2[3], e1[1]))
        f2 == Sub(Mul(e2[2], e1[1]), Mul(e2[1], e1[2]))
        dot == Add(Add(Mul(f0, v1[1]), Mul(f1, v1[2])), Mul(f2, v1[3]))
    IN  Gt(dot, I(0))

\* insideIndices / outsideIndices in the order the loop pushes them
_categorizeVertices_strict(vertices, cameraNear) ==
    [inside |-> SelectSeq(<<1, 2, 3>>, LAMBDA i : Lt(vertices[i][3], cameraNear)),
     outside |-> SelectSeq(<<1, 2, 3>>, LAMBDA i : ~Lt(vertices[i][3], cameraNear))]

_categorizeVertices(vertices, cameraNear) ==
    [inside |-> SelectSeq(<<1, 2, 3>>, LAMBDA i : Le(vertices[i][3], cameraNear)),
     outside |-> SelectSeq(<<1, 2, 3>>, LAMBDA i : ~Le(vertices[i][3], cameraNear))]

_calculateIntersectionRatio_swapped(origin, target, n) ==
    Div(Add(target[3], n), Sub(origin[3], target[3]))

_calculateIntersectionRatio(origin, target, n) ==
    Div(Add(origin[3], n), Sub(origin[3], target[3]))

\* origin + ratio * (target - origin) in x, y, z; w stays 1.0
Intersect(origin, target, ratio) ==
    <<Add(origin[1], Mul(ratio, Sub(target[1], origin[1]))),
      Add(origin[2], Mul(ratio, Sub(target[2], origin[2]))),
      Add(origin[3], Mul(ratio, Sub(target[3], origin[3]))),
      I(1)>>

\* The switch on outsideIndices.length: the vertex array after clipping,
\* <<>> when the triangle is skipped (case 3).
ClipToNearPlane(vertices, outsideIndices, insideIndices) ==
    CASE Len(outsideIndices) = 0 -> vertices
      [] Len(outsideIndices) = 3 -> <<>>
      [] Len(outsideIndices) = 1 ->
            LET origin == vertices[outsideIndices[1]]
                t1 == vertices[insideIndices[1]]
                t2 == vertices[insideIndices[2]]
                newV1 == Intersect(origin, t1, _calculateIntersectionRatio(origin, t1, I(near)))
                newV2 == Intersect(origin, t2, _calculateIntersectionRatio(origin, t2, I(near)))
            IN  Append([vertices EXCEPT ![outsideIndices[1]] = newV1], newV2)
      [] Len(outsideIndices) = 2 ->
            LET target == vertices[insideIndices[1]]
                o1 == vertices[outsideIndices[1]]
                o2 == vertices[outsideIndices[2]]
            IN  [vertices EXCEPT
                   ![outsideIndices[1]] =
                       Intersect(o1, target, _calculateIntersectionRatio(o1, target, I(near))),
                   ![outsideIndices[2]] =
                       Intersect(o2, target, _calculateIntersectionRatio(o2, target, I(near)))]

\* the unclipped triangle pushed as (vertices[0], vertices[2], vertices[1])
_createTriangles_reversed(vertices, outsideIndices, insideIndices) ==
    IF Len(vertices) = 4
    THEN << <<vertices[outsideIndices[1]], vertices[insideIndices[1]], vertices[4]>>,
            <<vertices[4], vertices[insideIndices[1]], vertices[insideIndices[2]]>> >>
    ELSE << <<vertices[1], vertices[3], vertices[2]>> >>

\* the second triangle of a clipped quad pushed with its inside vertices swapped
_createTriangles_swapped(vertices, outsideIndices, insideIndices) ==
    IF Len(vertices) = 4
    THEN << <<vertices[outsideIndices[1]], vertices[insideIndices[1]], vertices[4]>>,
            <<vertices[4], vertices[insideIndices[2]], vertices[insideIndices[1]]>> >>
    ELSE << <<vertices[1], vertices[2], vertices[3]>> >>

\* new Triangle(...) for the clipped vertex array: indices into `vertices`
_createTriangles(vertices, outsideIndices, insideIndices) ==
    IF Len(vertices) = 4
    THEN << <<vertices[outsideIndices[1]], vertices[insideIndices[1]], vertices[4]>>,
            <<vertices[4], vertices[insideIndices[1]], vertices[insideIndices[2]]>> >>
    ELSE << <<vertices[1], vertices[2], vertices[3]>> >>

\* Back-face test, categorisation and near-plane clipping of one triangle, up
\* to the call of _projectionTransform: the index arrays and the camera-space
\* triangles that _createTriangles picks out of the clipped vertex array.
ClipTriangle(v1, v2, v3) ==
    LET vertices == <<v1, v2, v3>>
        cameraNearZInWorld == I(-near)
        cat == _categorizeVertices(vertices, cameraNearZInWorld)
        outsideIndices == cat.outside
        insideIndices == cat.inside
        clipped == ClipToNearPlane(vertices, outsideIndices, insideIndices)
    IN  [backFacing |-> _isBackFacingCameraViewSpace(v1, v2, v3),
         outside |-> outsideIndices,
         inside |-> insideIndices,
         triangles |-> IF _isBackFacingCameraViewSpace(v1, v2, v3) THEN <<>>
                       ELSE IF clipped = <<>> THEN <<>>
                       ELSE _createTriangles(clipped, outsideIndices, insideIndices)]

-----------------------------------------------------------------------------
(* Projection and screen mapping *)

\* matrix.applyPost(v); div = 1.0 / v.w; v.x *= div; v.y *= div  (z, w kept)
_projectionTransform(vertices) ==
    [i \in DOMAIN vertices |->
        LET v == applyPostProjection(vertices[i])
            div == Div(I(1), v[4])
        IN  <<Mul(v[1], div), Mul(v[2], div), v[3], v[4]>>]

\* pixel = (ndc + 1.0) * (clip / 2)
_transformToScreenSpace(vertices) ==
    [i \in DOMAIN vertices |->
        LET v == vertices[i]
        IN  <<Mul(Add(v[1], I(1)), Q(_clipX, 2)),
              Mul(Add(v[2], I(1)), Q(_clipY, 2)), v[3], v[4]>>]

\* One index triple of an occluder, from camera space to screen-space
\* triangles: back-face test, near-plane clip, projection, screen mapping.
TrianglesOfFace(v1, v2, v3) ==
    LET vertices == <<v1, v2, v3>>
        cat == _categorizeVertices(vertices, I(-near))
        clipped == ClipToNearPlane(vertices, cat.outside, cat.inside)
    IN  IF _isBackFacingCameraViewSpace(v1, v2, v3) THEN <<>>
        ELSE IF clipped = <<>> THEN <<>>
        ELSE _createTriangles(_transformToScreenSpace(_projectionTransform(clipped)),
                              cat.outside, cat.inside)

\* new Vector4(posArray[posIndex], posArray[posIndex + 1], posArray[posIndex + 2], 1.0)
\* for posIndex = vertIndexArray[k] * 3: a read past the end of either array
\* yields undefined, which the vector stores as NaN
VertexAt(posArray, vertIndexArray, k) ==
    IF k \notin DOMAIN vertIndexArray THEN <<NaN, NaN, NaN, I(1)>>
    ELSE IF vertIndexArray[k] \notin DOMAIN posArray THEN <<NaN, NaN, NaN, I(1)>>
    ELSE posArray[vertIndexArray[k]]

\* for (vertIndex = 0; vertIndex < vertIndexArray.length; vertIndex++) with two
\* more ++vertIndex in the body
RECURSIVE FacesFrom(_, _, _)
FacesFrom(posArray, vertIndexArray, vertIndex) ==
    IF vertIndex > Len(vertIndexArray) THEN <<>>
    ELSE TrianglesOfFace(VertexAt(posArray, vertIndexArray, vertIndex),
                         VertexAt(posArray, vertIndexArray, vertIndex + 1),
                         VertexAt(posArray, vertIndexArray, vertIndex + 2))
         \o FacesFrom(posArray, vertIndexArray, vertIndex + 3)

\* entity: [positions, indices, translation]
_createTrianglesForEntity(entity) ==
    LET posArray == [i \in DOMAIN entity.positions |->
                        applyPostWorld(entity.translation, entity.positions[i])]
    IN  FacesFrom(posArray, entity.indices, 1)

-----------------------------------------------------------------------------
(* Edge and EdgeData *)

\* new Edge(a, b): endpoints ordered so that y0 <= y1; z holds the vertex w
Edge(a, b) ==
    IF Gt(a[2], b[2])
    THEN [x0 |-> b[1], y0 |-> b[2], z0 |-> b[4], x1 |-> a[1], y1 |-> a[2], z1 |-> a[4]]
    ELSE [x0 |-> a[1], y0 |-> a[2], z0 |-> a[4], x1 |-> b[1], y1 |-> b[2], z1 |-> b[4]]

roundOccluderCoordinates(e) ==
    [e EXCEPT !.x0 = Ceil(e.x0), !.x1 = Floor(e.x1), !.y0 = Ceil(e.y0), !.y1 = Floor(e.y1)]

roundOccludeeCoordinates(e) ==
    [e EXCEPT !.x0 = Floor(e.x0), !.x1 = Ceil(e.x1), !.y0 = Floor(e.y0), !.y1 = Ceil(e.y1)]

invertZ(e) == [e EXCEPT !.z0 = Div(I(1), e.z0), !.z1 = Div(I(1), e.z1)]

\* edgeData.updateXValues(): one scanline step of all four interpolants
updateXValues(d) ==
    [d EXCEPT !.longX = Add(d.longX, d.longXInc), !.shortX = Add(d.shortX, d.shortXInc),
              !.longZ = Add(d.longZ, d.longZInc), !.shortZ = Add(d.shortZ, d.shortZInc)]

_updateEdgeDataToNextLine(d) == updateXValues(d)

NoEdgeData == [valid |-> FALSE]

\* this._edges for a triangle, before rounding
TriangleEdges(triangle) ==
    <<Edge(triangle[1], triangle[2]), Edge(triangle[2], triangle[3]),
      Edge(triangle[3], triangle[1])>>

\* for (i = 0; i < 3; i++) { height = y1 - y0; if (height > maxHeight) ... }
RECURSIVE LongEdgeLoop(_, _, _, _)
LongEdgeLoop(edges, i, maxHeight, longEdge) ==
    IF i > 3 THEN longEdge
    ELSE IF Gt(Sub(edges[i].y1, edges[i].y0), maxHeight)
    THEN LongEdgeLoop(edges, i + 1, Sub(edges[i].y1, edges[i].y0), i)
    ELSE LongEdgeLoop(edges, i + 1, maxHeight, longEdge)

LongEdgeIndex_first(edges) == 1

\* index (1..3) of the edge with the greatest height; edge 1 when none is > 0
LongEdgeIndex(edges) == LongEdgeLoop(edges, 1, I(0), 1)

ShortEdgeIndices(longEdge) == <<longEdge, (longEdge % 3) + 1, ((longEdge + 1) % 3) + 1>>

\* [longEdge, shortEdge1, shortEdge2] as indices 1..3
_createEdgesForTriangle(edges) == ShortEdgeIndices(LongEdgeIndex(edges))

_calculateOrientationData(edgeData, shortEdge, longEdge) ==
    IF edgeData.shortX = edgeData.longX /\ ~IsNaN(edgeData.shortX)
    THEN <<Gt(edgeData.longXInc, edgeData.shortXInc), Lt(longEdge.z1, shortEdge.z1)>>
    ELSE <<Gt(edgeData.longX, edgeData.shortX), Lt(longEdge.z1, shortEdge.z0)>>

_verticalLongEdgeCull_never(longEdge) == FALSE

_verticalLongEdgeCull(longEdge) ==
    Lt(longEdge.y1, I(0)) \/ Gt(longEdge.y0, I(_clipY))

_horizontalLongEdgeCull(longEdge, orientationData) ==
    IF orientationData[1]
    THEN Lt(longEdge.x1, I(0)) /\ Lt(longEdge.x0, I(0))
    ELSE Gt(longEdge.x1, I(_clipX)) /\ Gt(longEdge.x0, I(_clipX))

\* the interpolants at the short edge's first line, before vertical clipping
StartEdgeData(longEdge, shortEdge, longEdgeDeltaY, shortEdgeDeltaY, longStartCoeff) ==
    [valid |-> TRUE,
     startLine |-> shortEdge.y0,
     stopLine |-> shortEdge.y1,
     longX |-> Add(longEdge.x0, Mul(Sub(longEdge.x1, longEdge.x0), longStartCoeff)),
     shortX |-> shortEdge.x0,
     longZ |-> Add(longEdge.z0, Mul(Sub(longEdge.z1, longEdge.z0), longStartCoeff)),
     shortZ |-> shortEdge.z0,
     longXInc |-> Div(Sub(longEdge.x1, longEdge.x0), longEdgeDeltaY),
     shortXInc |-> Div(Sub(shortEdge.x1, shortEdge.x0), shortEdgeDeltaY),
     longZInc |-> Div(Sub(longEdge.z1, longEdge.z0), longEdgeDeltaY),
     shortZInc |-> Div(Sub(shortEdge.z1, shortEdge.z0), shortEdgeDeltaY)]

\* the start line moved to 0 without advancing the interpolants
ClipStartLine_noAdvance(d) ==
    IF Lt(d.startLine, I(0)) THEN [d EXCEPT !.startLine = I(0)] ELSE d

\* if (startLine < 0) { advance the interpolants; startLine = 0 }
ClipStartLine(d) ==
    IF Lt(d.startLine, I(0))
    THEN [d EXCEPT !.longX = Add(d.longX, Mul(Neg(d.startLine), d.longXInc)),
                   !.shortX = Add(d.shortX, Mul(Neg(d.startLine), d.shortXInc)),
                   !.longZ = Add(d.longZ, Mul(Neg(d.startLine), d.longZInc)),
                   !.shortZ = Add(d.shortZ, Mul(Neg(d.startLine), d.shortZInc)),
                   !.startLine = I(0)]
    ELSE d

ClipStopLine_unclipped(d) == d

\* if (stopLine > this._clipY) stopLine = this._clipY
ClipStopLine(d) ==
    IF Gt(d.stopLine, I(_clipY)) THEN [d EXCEPT !.stopLine = I(_clipY)] ELSE d

EdgeDataFor(longEdge, shortEdge, longEdgeDeltaY, shortEdgeDeltaY) ==
    ClipStopLine(ClipStartLine(
        StartEdgeData(longEdge, shortEdge, longEdgeDeltaY, shortEdgeDeltaY,
                      Div(Sub(shortEdge.y0, longEdge.y0), longEdgeDeltaY))))

_edgePreRenderProcess(longEdge, shortEdge) ==
    IF Le(Sub(shortEdge.y1, shortEdge.y0), I(0)) THEN NoEdgeData
    ELSE EdgeDataFor(longEdge, shortEdge, Sub(longEdge.y1, longEdge.y0),
                     Sub(shortEdge.y1, shortEdge.y0))

\* the long edge before rounding, and the three edges after rounding and
\* invertZ, picked by [longEdge, shortEdge1, shortEdge2]
PickEdges(raw, rounded, edgeIndices) ==
    [rawLong |-> raw[edgeIndices[1]], long |-> rounded[edgeIndices[1]],
     short1 |-> rounded[edgeIndices[2]], short2 |-> rounded[edgeIndices[3]]]

\* the left and right interpolants of a scanline, by orientationData[0]:
\* <<realLeftX, realRightX, leftZ, rightZ>>
LeftRight(edgeData, orientationData) ==
    IF orientationData[1]
    THEN <<edgeData.shortX, edgeData.longX, edgeData.shortZ, edgeData.longZ>>
    ELSE <<edgeData.longX, edgeData.shortX, edgeData.longZ, edgeData.shortZ>>

-----------------------------------------------------------------------------
(* Occluder path: _renderTriangle, _drawEdges, _fillPixels *)

\* a value of this._depthData: one number per pixel
IsDepthBuffer(depth) == DOMAIN depth = Pixels

\* the z-test and store of one pixel, without the comparison
StorePixel_overwrite(depth, index, d) ==
    IF IsNaN(d) THEN depth ELSE [depth EXCEPT ![index] = d]

\* if (depth > this._depthData[index]) this._depthData[index] = depth
\* (an index outside the array reads undefined, and the comparison is false)
StorePixel(depth, index, d) ==
    IF index \in DOMAIN depth /\ Gt(d, depth[index]) THEN [depth EXCEPT ![index] = d]
    ELSE depth

\* for (i = leftX; i <= rightX; i++) { store; index++; depth += depthIncrement }
\* (the buffer test holds always; it makes the buffer of the previous step a
\* value before the next step reads it)
RECURSIVE FillLoop(_, _, _, _, _, _)
FillLoop(depth, i, rightX, index, d, depthIncrement) ==
    IF i > rightX \/ ~IsDepthBuffer(depth) THEN depth
    ELSE FillLoop(StorePixel(depth, index, d), i + 1, rightX, index + 1,
                  Add(d, depthIncrement), depthIncrement)

\* if (leftX < 0) { t = -leftX / (rightX - leftX + 1); leftZ = lerp; leftX = 0 }
\* on a span <<leftX, rightX, leftZ, rightZ>>
ClipSpanLeft(s) ==
    IF Lt(s[1], I(0))
    THEN <<I(0), s[2], Lerp(Div(Neg(s[1]), Add(Sub(s[2], s[1]), I(1))), s[3], s[4]), s[4]>>
    ELSE s

ClipSpanRight_unclipped(s) == s

\* diff = rightX - clipX + 1; if (diff > 0) { t = diff / (rightX - leftX + 1);
\* rightZ = lerp; rightX = clipX }
ClipSpanRight(s) ==
    IF Gt(Add(Sub(s[2], I(_clipX)), I(1)), I(0))
    THEN <<s[1], I(_clipX), s[3],
           Lerp(Div(Add(Sub(s[2], I(_clipX)), I(1)), Add(Sub(s[2], s[1]), I(1))), s[4], s[3])>>
    ELSE s

\* Horizontal clipping of a span: <<leftX, rightX, leftZ, rightZ>> afterwards
ClipSpan(leftX, rightX, leftZ, rightZ) ==
    ClipSpanRight(ClipSpanLeft(<<leftX, rightX, leftZ, rightZ>>))

\* a span the early return of _fillPixels / _isScanlineOccluded rejects
SpanRejected(leftX, rightX) ==
    Lt(rightX, I(0)) \/ Gt(leftX, I(_clipX)) \/ Lt(rightX, leftX)

\* the loop of _fillPixels over the clipped span c; a NaN or infinite bound
\* runs it zero times
FillClipped(depth, c, y) ==
    IF ~IsFinite(c[1]) \/ ~IsFinite(c[2]) \/ ~IsFinite(y) THEN depth
    ELSE FillLoop(depth, c[1][1], c[2][1], y[1] * width + c[1][1], c[3],
                  Div(Sub(c[4], c[3]), Sub(c[2], c[1])))

_fillPixels(depth, leftX, rightX, y, leftZ, rightZ) ==
    IF SpanRejected(leftX, rightX) THEN depth
    ELSE FillClipped(depth, ClipSpan(leftX, rightX, leftZ, rightZ), y)

\* the two conservative steps on the depth of one span end: first to the
\* rounded pixel (t = offset / spanLength), then half a pixel inwards
\* (t = 0.5 / (rightX - leftX + 1))
ConservativeZ(offset, spanLength, pixels, z, other) ==
    Lerp(Div(Q(1, 2), pixels), Lerp(Div(offset, spanLength), z, other), other)

\* leftX = ceil(realLeftX), rightX = floor(realRightX) and the depth moved on
\* the side orientationData[1] names
RoundedOccluderSpan(r, leftX, rightX, inwards) ==
    IF inwards
    THEN <<leftX, rightX,
           ConservativeZ(Sub(leftX, r[1]), Sub(r[2], r[1]), Add(Sub(rightX, leftX), I(1)),
                         r[3], r[4]),
           r[4]>>
    ELSE <<leftX, rightX, r[3],
           ConservativeZ(Sub(r[2], rightX), Sub(r[2], r[1]), Add(Sub(rightX, leftX), I(1)),
                         r[4], r[3])>>

\* the rounding of the occludee path used on the occluder path
SpanOfOccluder_outward(r, inwards) ==
    RoundedOccluderSpan(r, Floor(r[1]), Ceil(r[2]), inwards)

SpanOfOccluder(r, inwards) == RoundedOccluderSpan(r, Ceil(r[1]), Floor(r[2]), inwards)

\* One scanline of _drawEdges: the span <<leftX, rightX, leftZ, rightZ>> it fills
OccluderSpan(edgeData, orientationData) ==
    SpanOfOccluder(LeftRight(edgeData, orientationData), orientationData[2])

FillSpan(depth, sp, y) == _fillPixels(depth, sp[1], sp[2], I(y), sp[3], sp[4])

\* for (y = startLine; y <= stopLine; y++) { fill; next line }
RECURSIVE DrawLines(_, _, _, _, _)
DrawLines(depth, edgeData, orientationData, y, stopLine) ==
    IF y > stopLine \/ ~IsDepthBuffer(depth) THEN depth
    ELSE DrawLines(FillSpan(depth, OccluderSpan(edgeData, orientationData), y),
                   _updateEdgeDataToNextLine(edgeData), orientationData, y + 1, stopLine)

_drawEdges(depth, edgeData, orientationData) ==
    IF ~IsFinite(edgeData.startLine) \/ ~IsFinite(edgeData.stopLine) THEN depth
    ELSE DrawLines(depth, edgeData, orientationData,
                   edgeData.startLine[1], edgeData.stopLine[1])

\* the two `if (edgeData)` blocks once orientationData is known: eds is
\* <<edgeData of shortEdge1, edgeData of shortEdge2>>
RECURSIVE DrawHalves(_, _, _, _)
DrawHalves(depth, eds, k, orientationData) ==
    IF k > Len(eds) \/ ~IsDepthBuffer(depth) THEN depth
    ELSE IF eds[k].valid
    THEN DrawHalves(_drawEdges(depth, eds[k], orientationData), eds, k + 1, orientationData)
    ELSE DrawHalves(depth, eds, k + 1, orientationData)

\* orientationData is computed from the first edgeData that exists, and the
\* horizontal cull is asked once, right after
DrawOriented(depth, e, eds, orientationData) ==
    IF _horizontalLongEdgeCull(e.long, orientationData) THEN depth
    ELSE DrawHalves(depth, eds, 1, orientationData)

OrientationOf(e, eds) ==
    IF eds[1].valid THEN _calculateOrientationData(eds[1], e.short1, e.long)
    ELSE _calculateOrientationData(eds[2], e.short2, e.long)

DrawPicked(depth, e, eds) ==
    IF ~eds[1].valid /\ ~eds[2].valid THEN depth
    ELSE DrawOriented(depth, e, eds, OrientationOf(e, eds))

EdgeDataOf(e) ==
    <<_edgePreRenderProcess(e.long, e.short1), _edgePreRenderProcess(e.long, e.short2)>>

OccluderEdges(raw) ==
    PickEdges(raw, [i \in 1..3 |-> invertZ(roundOccluderCoordinates(raw[i]))],
              _createEdgesForTriangle(raw))

RenderEdges(depth, e) ==
    IF _verticalLongEdgeCull(e.rawLong) THEN depth
    ELSE DrawPicked(depth, e, EdgeDataOf(e))

_renderTriangle(depth, triangle) ==
    RenderEdges(depth, OccluderEdges(TriangleEdges(triangle)))

RECURSIVE RenderTriangles(_, _, _)
RenderTriangles(depth, triangles, t) ==
    IF t > Len(triangles) \/ ~IsDepthBuffer(depth) THEN depth
    ELSE RenderTriangles(_renderTriangle(depth, triangles[t]), triangles, t + 1)

-----------------------------------------------------------------------------
(* Occludee path: isRenderedTriangleOccluded, _isEdgeOccluded,             *)
(* _isScanlineOccluded                                                     *)

\* the loop with the comparison depth >= stored
RECURSIVE ScanLoop_orEqual(_, _, _, _, _, _)
ScanLoop_orEqual(depth, i, rightX, index, d, depthIncrement) ==
    IF i > rightX THEN TRUE
    ELSE IF ~Lt(d, depth[index]) THEN FALSE
    ELSE ScanLoop_orEqual(depth, i + 1, rightX, index + 1, Add(d, depthIncrement), depthIncrement)

\* for (i = leftX; i <= rightX; i++) { if (depth > stored) return false; ... }
RECURSIVE ScanLoop(_, _, _, _, _, _)
ScanLoop(depth, i, rightX, index, d, depthIncrement) ==
    IF i > rightX THEN TRUE
    ELSE IF index \in DOMAIN depth /\ Gt(d, depth[index]) THEN FALSE
    ELSE ScanLoop(depth, i + 1, rightX, index + 1, Add(d, depthIncrement), depthIncrement)

\* the answer of the loop turned round
ScanClipped_inverted(depth, c, y) ==
    IF ~IsFinite(c[1]) \/ ~IsFinite(c[2]) \/ ~IsFinite(y) THEN TRUE
    ELSE ~ScanLoop(depth, c[1][1], c[2][1], y[1] * width + c[1][1], c[3],
                   Div(Sub(c[4], c[3]), Sub(c[2], c[1])))

ScanClipped(depth, c, y) ==
    IF ~IsFinite(c[1]) \/ ~IsFinite(c[2]) \/ ~IsFinite(y) THEN TRUE
    ELSE ScanLoop(depth, c[1][1], c[2][1], y[1] * width + c[1][1], c[3],
                  Div(Sub(c[4], c[3]), Sub(c[2], c[1])))

_isScanlineOccluded(depth, leftX, rightX, y, leftZ, rightZ) ==
    IF SpanRejected(leftX, rightX) THEN TRUE
    ELSE ScanClipped(depth, ClipSpan(leftX, rightX, leftZ, rightZ), y)

\* if (dif > 1) { slope = ...; rightZ and leftZ extrapolated to the rounded
\* ends, each clamped with Math.max(0.0, .) }
ExtrapolatedSpan(r, leftX, rightX, slope) ==
    IF Gt(Sub(rightX, leftX), I(1))
    THEN <<leftX, rightX,
           Max(I(0), Add(r[3], Mul(Sub(leftX, r[1]), slope))),
           Max(I(0), Add(r[3], Mul(Sub(rightX, r[1]), slope)))>>
    ELSE <<leftX, rightX, r[3], r[4]>>

\* t = 0.5 / (dif + 1), moving the depth of the side orientationData[1] names
BiasedSpan(s, t, inwards) ==
    IF inwards
    THEN <<s[1], s[2], s[3], Lerp(t, s[4], s[3])>>
    ELSE <<s[1], s[2], Lerp(t, s[3], s[4]), s[4]>>

RoundedOccludeeSpan(r, leftX, rightX, inwards) ==
    BiasedSpan(ExtrapolatedSpan(r, leftX, rightX, Div(Sub(r[4], r[3]), Sub(r[2], r[1]))),
               Div(Q(1, 2), Add(Sub(rightX, leftX), I(1))), inwards)

SpanOfOccludee(r, inwards) == RoundedOccludeeSpan(r, Floor(r[1]), Ceil(r[2]), inwards)

\* One scanline of _isEdgeOccluded: the span <<leftX, rightX, leftZ, rightZ>> probed
OccludeeSpan(edgeData, orientationData) ==
    SpanOfOccludee(LeftRight(edgeData, orientationData), orientationData[2])

ProbeSpan(depth, sp, y) == _isScanlineOccluded(depth, sp[1], sp[2], I(y), sp[3], sp[4])

RECURSIVE ProbeLines(_, _, _, _, _)
ProbeLines(depth, edgeData, orientationData, y, stopLine) ==
    IF y > stopLine THEN TRUE
    ELSE IF ~ProbeSpan(depth, OccludeeSpan(edgeData, orientationData), y) THEN FALSE
    ELSE ProbeLines(depth, _updateEdgeDataToNextLine(edgeData), orientationData,
                    y + 1, stopLine)

_isEdgeOccluded(depth, edgeData, orientationData) ==
    IF ~IsFinite(edgeData.startLine) \/ ~IsFinite(edgeData.stopLine) THEN TRUE
    ELSE ProbeLines(depth, edgeData, orientationData,
                    edgeData.startLine[1], edgeData.stopLine[1])

RECURSIVE ProbeHalves(_, _, _, _)
ProbeHalves(depth, eds, k, orientationData) ==
    IF k > Len(eds) THEN TRUE
    ELSE IF eds[k].valid /\ ~_isEdgeOccluded(depth, eds[k], orientationData) THEN FALSE
    ELSE ProbeHalves(depth, eds, k + 1, orientationData)

ProbeOriented(depth, e, eds, orientationData) ==
    IF _horizontalLongEdgeCull(e.long, orientationData) THEN TRUE
    ELSE ProbeHalves(depth, eds, 1, orientationData)

ProbePicked(depth, e, eds) ==
    IF ~eds[1].valid /\ ~eds[2].valid THEN TRUE
    ELSE ProbeOriented(depth, e, eds, OrientationOf(e, eds))

OccludeeEdges(raw) ==
    PickEdges(raw, [i \in 1..3 |-> invertZ(roundOccludeeCoordinates(raw[i]))],
              _createEdgesForTriangle(raw))

ProbeEdges(depth, e) ==
    IF _verticalLongEdgeCull(e.rawLong) THEN TRUE
    ELSE ProbePicked(depth, e, EdgeDataOf(e))

isRenderedTriangleOccluded(depth, triangle) ==
    ProbeEdges(depth, OccludeeEdges(TriangleEdges(triangle)))

_isBackFacingProjected(v1, v2, v3) ==
    Lt(Sub(Mul(Sub(v3[2], v1[2]), Sub(v2[1], v1[1])),
           Mul(Sub(v3[1], v1[1]), Sub(v2[2], v1[2]))), I(0))

-----------------------------------------------------------------------------
(* Bounding-volume projection (BoundingBoxOcclusionModule,                 *)
(* BoundingSphereOcclusionModule).  An emitted triangle is                 *)
(* [nearClipped, tri]: nearClipped when a vertex is nearer than the near   *)
(* plane, tri the screen-space triangle otherwise.                         *)

\* the twelve triangles of a box, as corner numbers; corner k has bit 1 = +x,
\* bit 2 = +y, bit 4 = +z; counter-clockwise seen from outside
BoxFaces ==
    << <<4, 5, 7>>, <<4, 7, 6>>,     \* +z
       <<1, 0, 2>>, <<1, 2, 3>>,     \* -z
       <<5, 1, 3>>, <<5, 3, 7>>,     \* +x
       <<0, 4, 6>>, <<0, 6, 2>>,     \* -x
       <<6, 7, 3>>, <<6, 3, 2>>,     \* +y
       <<0, 1, 5>>, <<0, 5, 4>> >>   \* -y

BoxCorner(entity, k) ==
    LET sx == IF k % 2 = 1 THEN 1 ELSE -1
        sy == IF (k \div 2) % 2 = 1 THEN 1 ELSE -1
        sz == IF (k \div 4) % 2 = 1 THEN 1 ELSE -1
        b == entity.bound
    IN  applyPostWorld(entity.translation,
            <<Add(b.center[1], Mul(I(sx), b.extents[1])),
              Add(b.center[2], Mul(I(sy), b.extents[2])),
              Add(b.center[3], Mul(I(sz), b.extents[3])), I(1)>>)

OutsideNear(v) == ~Le(v[3], I(-near))

EmitTriangle(v1, v2, v3) ==
    IF OutsideNear(v1) \/ OutsideNear(v2) \/ OutsideNear(v3)
    THEN << [nearClipped |-> TRUE, tri |-> <<v1, v2, v3>>] >>
    ELSE LET s == _transformToScreenSpace(_projectionTransform(<<v1, v2, v3>>))
         IN  IF _isBackFacingProjected(s[1], s[2], s[3]) THEN <<>>
             ELSE << [nearClipped |-> FALSE, tri |-> s] >>

RECURSIVE BoxTrianglesFrom(_, _)
BoxTrianglesFrom(entity, f) ==
    IF f > Len(BoxFaces) THEN <<>>
    ELSE EmitTriangle(BoxCorner(entity, BoxFaces[f][1]), BoxCorner(entity, BoxFaces[f][2]),
                      BoxCorner(entity, BoxFaces[f][3]))
         \o BoxTrianglesFrom(entity, f + 1)

BoundingBoxTriangles(entity) == BoxTrianglesFrom(entity, 1)

\* the square around the sphere's disk, at the depth of its nearest point
BoundingSphereTriangles(entity) ==
    LET c == applyPostWorld(entity.translation,
                 <<entity.bound.center[1], entity.bound.center[2],
                   entity.bound.center[3], I(1)>>)
        r == entity.bound.radius
        z == Add(c[3], r)
        p00 == <<Sub(c[1], r), Sub(c[2], r), z, I(1)>>
        p10 == <<Add(c[1], r), Sub(c[2], r), z, I(1)>>
        p11 == <<Add(c[1], r), Add(c[2], r), z, I(1)>>
        p01 == <<Sub(c[1], r), Add(c[2], r), z, I(1)>>
    IN  EmitTriangle(p00, p10, p11) \o EmitTriangle(p00, p11, p01)

\* TRUE = occluded
ProbeTriangle(depth, e) ==
    IF e.nearClipped THEN FALSE ELSE isRenderedTriangleOccluded(depth, e.tri)

\* culled iff every emitted triangle is occluded; stops at the first that is not
RECURSIVE AllOccludedFrom(_, _, _)
AllOccludedFrom(depth, emitted, k) ==
    IF k > Len(emitted) THEN TRUE
    ELSE IF ~ProbeTriangle(depth, emitted[k]) THEN FALSE
    ELSE AllOccludedFrom(depth, emitted, k + 1)

boundingBoxModule_occlusionCull(depth, entity) ==
    AllOccludedFrom(depth, BoundingBoxTriangles(entity), 1)

boundingSphereModule_occlusionCull(depth, entity) ==
    AllOccludedFrom(depth, BoundingSphereTriangles(entity), 1)

-----------------------------------------------------------------------------
(* The scene: occluder entities (position buffer, index buffer, world      *)
(* translation) and occlusion candidates (cull mode, model bound).         *)

MaxRenderList == 2
MaxCullList == 2

NoTranslation == <<I(0), I(0), I(0)>>

Occluders ==
    << \* 1: full-screen quad at z = -2 (depth 1/2)
       [positions |-> <<V(-2, -2, -2), V(2, -2, -2), V(2, 2, -2), V(-2, 2, -2)>>,
        indices |-> <<1, 2, 3, 1, 3, 4>>, translation |-> NoTranslation],
       \* 2: triangle with one vertex nearer than the near plane
       [positions |-> <<V(-2, -2, -2), V(2, -2, -2), V(0, 2, 0)>>,
        indices |-> <<1, 2, 3>>, translation |-> NoTranslation],
       \* 3: small triangle on the near plane (depth 1)
       [positions |-> <<V(-1, -1, 0), V(0, -1, 0), V(-1, 0, 0)>>,
        indices |-> <<1, 2, 3>>, translation |-> <<I(0), I(0), I(-1)>>],
       \* 4: slanted triangle, depth 1/2 down to 1/4
       [positions |-> <<V(-2, -2, -2), V(4, -4, -4), V(0, 4, -4)>>,
        indices |-> <<1, 2, 3>>, translation |-> NoTranslation] >>

Candidates ==
    << \* 1: box behind the quad
       [cullMode |-> "Dynamic", translation |-> NoTranslation,
        bound |-> [kind |-> "BoundingBox", center |-> <<I(0), I(0), I(-5)>>,
                   extents |-> <<I(1), I(1), I(1)>>]],
       \* 2: box in front of the quad
       [cullMode |-> "Dynamic", translation |-> NoTranslation,
        bound |-> [kind |-> "BoundingBox", center |-> <<I(0), I(0), Q(-3, 2)>>,
                   extents |-> <<Q(1, 4), Q(1, 4), Q(1, 4)>>]],
       \* 3: sphere behind the quad, off centre
       [cullMode |-> "Dynamic", translation |-> <<I(1), I(1), I(0)>>,
        bound |-> [kind |-> "BoundingSphere", center |-> <<I(0), I(0), I(-5)>>,
                   radius |-> I(1)]],
       \* 4: sphere cutting the near plane
       [cullMode |-> "Dynamic", translation |-> NoTranslation,
        bound |-> [kind |-> "BoundingSphere", center |-> <<I(0), I(0), I(-1)>>,
                   radius |-> Q(1, 2)]],
       \* 5: box behind the quad that must never be culled
       [cullMode |-> "NeverOcclusionCull", translation |-> NoTranslation,
        bound |-> [kind |-> "BoundingBox", center |-> <<I(0), I(0), I(-5)>>,
                   extents |-> <<I(1), I(1), I(1)>>]],
       \* 6: a model bound that is neither a sphere nor a box
       [cullMode |-> "Dynamic", translation |-> NoTranslation,
        bound |-> [kind |-> "Other"]] >>

OccluderIds == DOMAIN Occluders
CandidateIds == DOMAIN Candidates

\* occluders whose index buffer has a length that is not a multiple of 3 or
\* holds an index past the end of the position buffer (four positions)
MalformedIndices ==
    << <<1, 2, 3, 1>>, <<1, 2, 3, 1, 3>>, <<1, 2, 3, 1, 3, 5>>, <<1, 2, 5>>,
       <<1, 2>>, <<5, 2, 3, 1, 3, 4>>, <<1, 3, 4, 7, 8, 9>>, <<1>> >>

MalformedOccluders ==
    [k \in DOMAIN MalformedIndices |->
        [positions |-> Occluders[1].positions, indices |-> MalformedIndices[k],
         translation |-> NoTranslation]]

\* every entity a render list can hold: the scene's, then the malformed ones
AllOccluders == Occluders \o MalformedOccluders

\* candidates on a grid of centres across and beside the view, at z = -4: a
\* box and a sphere of half-size 1 at every centre
GridCoords == <<-8, -3, 0, 3, 8>>

GridCentre(k) ==
    <<I(GridCoords[((k \div Len(GridCoords)) % Len(GridCoords)) + 1]),
      I(GridCoords[(k % Len(GridCoords)) + 1]), I(-4)>>

GridCandidate(k) ==
    [cullMode |-> "Dynamic", translation |-> NoTranslation,
     bound |-> IF k < Len(GridCoords) * Len(GridCoords)
               THEN [kind |-> "BoundingBox", center |-> GridCentre(k),
                     extents |-> <<I(1), I(1), I(1)>>]
               ELSE [kind |-> "BoundingSphere", center |-> GridCentre(k), radius |-> I(1)]]

GridCandidates == [k \in 1..(2 * Len(GridCoords) * Len(GridCoords)) |-> GridCandidate(k - 1)]

\* every entity a candidate list can hold: the scene's, then the grid's
AllCandidates == Candidates \o GridCandidates

SeqsUpTo(S, n) == UNION {[1..k -> S] : k \in 0..n}

ZeroBuffer == [p \in Pixels |-> I(0)]

-----------------------------------------------------------------------------
(* SoftwareRenderer: construction, render(), performOcclusionCulling()     *)

Init ==
    /\ depthData = ZeroBuffer          \* a fresh Float32Array
    /\ depthClear = ZeroBuffer
    /\ pc = "idle"
    /\ renderList = <<>>
    /\ renderIdx = 0
    /\ cullList = <<>>
    /\ cullIdx = 0
    /\ cull = "undefined"
    /\ visibleEntities = <<>>
    /\ depthAtCall = ZeroBuffer
    /\ probed = {}
    /\ pushed = {}
    /\ clipIn = <<>>
    /\ clipOut = [done |-> FALSE]
    /\ probeOut = [done |-> FALSE]
    /\ instance = SceneInstance

_clearDepthData_skip == depthData

\* this._depthData.set(this._depthClear)
_clearDepthData == depthClear

\* render(renderList): entry, clears the depth data
RenderCall(list) ==
    /\ pc = "idle"
    /\ renderList' = list
    /\ renderIdx' = 1
    /\ depthAtCall' = depthData
    /\ depthData' = _clearDepthData
    /\ pc' = "render"
    /\ UNCHANGED <<depthClear, cullList, cullIdx, cull, visibleEntities, probed,
                   pushed, clipIn, clipOut, probeOut, instance>>

Render == \E list \in SeqsUpTo(OccluderIds, MaxRenderList) : RenderCall(list)

\* one iteration of the entity loop: build the triangles, rasterize each
RenderEntity ==
    /\ pc = "render"
    /\ renderIdx <= Len(renderList)
    /\ depthData' = RenderTriangles(depthData,
                        _createTrianglesForEntity(AllOccluders[renderList[renderIdx]]), 1)
    /\ renderIdx' = renderIdx + 1
    /\ UNCHANGED <<depthClear, pc, renderList, cullList, cullIdx, cull,
                   visibleEntities, depthAtCall, probed, pushed, clipIn, clipOut, probeOut, instance>>

RenderReturn ==
    /\ pc = "render"
    /\ renderIdx > Len(renderList)
    /\ pc' = "idle"
    /\ renderList' = <<>>
    /\ renderIdx' = 0
    /\ depthAtCall' = depthData
    /\ UNCHANGED <<depthData, depthClear, cullList, cullIdx, cull, visibleEntities,
                   probed, pushed, clipIn, clipOut, probeOut, instance>>

\* performOcclusionCulling(renderList): entry
CullCall(list) ==
    /\ pc = "idle"
    /\ cullList' = list
    /\ cullIdx' = 1
    /\ cull' = "undefined"
    /\ visibleEntities' = <<>>
    /\ probed' = {}
    /\ pushed' = {}
    /\ depthAtCall' = depthData
    /\ pc' = "cull"
    /\ UNCHANGED <<depthData, depthClear, renderList, renderIdx, clipIn, clipOut, probeOut, instance>>

Cull == \E list \in SeqsUpTo(CandidateIds, MaxCullList) : CullCall(list)

IsNeverCull_ignored(entity) == FALSE

\* entity.meshRendererComponent.cullMode !== 'NeverOcclusionCull', negated
IsNeverCull(entity) == entity.cullMode = "NeverOcclusionCull"

\* the value of `cull` after the instanceof dispatch for one entity; the
\* variable is function-scoped, so it keeps its value when neither test matches
CullDispatch(depth, entity, previous) ==
    IF entity.bound.kind = "BoundingSphere"
    THEN IF boundingSphereModule_occlusionCull(depth, entity) THEN "true" ELSE "false"
    ELSE IF entity.bound.kind = "BoundingBox"
    THEN IF boundingBoxModule_occlusionCull(depth, entity) THEN "true" ELSE "false"
    ELSE previous

ShouldPush_inverted(c) == c = "true"

\* if (!cull)
ShouldPush(c) == c # "true"

Push_front(list, e) == <<e>> \o list

\* visibleEntities.push(entity)
Push(list, e) == Append(list, e)

\* the triangles the module selected for the entity's bound kind emits
EmittedTriangles(entity) ==
    IF entity.bound.kind = "BoundingSphere" THEN BoundingSphereTriangles(entity)
    ELSE BoundingBoxTriangles(entity)

\* a probe that stores the depth of the first triangle it rasterizes
ProbeDepthData_writing(depth, entity) ==
    IF EmittedTriangles(entity) = <<>> THEN depth
    ELSE IF EmittedTriangles(entity)[1].nearClipped THEN depth
    ELSE RenderEdges(depth, OccludeeEdges(TriangleEdges(EmittedTriangles(entity)[1].tri)))

\* this._depthData after the probe of one entity: _isScanlineOccluded compares
\* against the depth data and stores to the colour data only
ProbeDepthData(depth, entity) == depth

\* the bound is one the instanceof dispatch has a module for
IsProbed(entity) == entity.bound.kind \in {"BoundingSphere", "BoundingBox"}

\* one iteration of the candidate loop
CullEntity ==
    /\ pc = "cull"
    /\ cullIdx <= Len(cullList)
    /\ IF IsNeverCull(AllCandidates[cullList[cullIdx]])
       THEN /\ visibleEntities' = Push(visibleEntities, cullList[cullIdx])
            /\ pushed' = pushed \cup {cullIdx}
            /\ UNCHANGED <<cull, probed, depthData>>
       ELSE /\ cull' = CullDispatch(depthData, AllCandidates[cullList[cullIdx]], cull)
            /\ IF IsProbed(AllCandidates[cullList[cullIdx]])
               THEN /\ probed' = probed \cup {cullIdx}
                    /\ depthData' = ProbeDepthData(depthData, AllCandidates[cullList[cullIdx]])
               ELSE UNCHANGED <<probed, depthData>>
            /\ IF ShouldPush(cull')
               THEN /\ visibleEntities' = Push(visibleEntities, cullList[cullIdx])
                    /\ pushed' = pushed \cup {cullIdx}
               ELSE UNCHANGED <<visibleEntities, pushed>>
    /\ cullIdx' = cullIdx + 1
    /\ UNCHANGED <<depthClear, pc, renderList, renderIdx, cullList,
                   depthAtCall, clipIn, clipOut, probeOut, instance>>

CullReturn ==
    /\ pc = "cull"
    /\ cullIdx > Len(cullList)
    /\ pc' = "idle"
    /\ cullList' = <<>>
    /\ cullIdx' = 0
    /\ cull' = "undefined"
    /\ visibleEntities' = <<>>
    /\ probed' = {}
    /\ pushed' = {}
    /\ depthAtCall' = depthData
    /\ UNCHANGED <<depthData, depthClear, renderList, renderIdx, clipIn, clipOut, probeOut, instance>>

Next == Render \/ RenderEntity \/ RenderReturn \/ Cull \/ CullEntity \/ CullReturn

Spec == Init /\ [][Next]_vars

-----------------------------------------------------------------------------
(* The clipper on its own: every triangle over a small grid of camera-space *)
(* vertices is handed to the back-face test and the near-plane clipper.     *)

ClipMaxX == 1
ClipDepth == 2

ClipVertices ==
    {V(x, y, z) : x \in (-ClipMaxX)..ClipMaxX, y \in 0..1, z \in (-ClipDepth)..1}

InitClip ==
    /\ depthData = ZeroBuffer
    /\ depthClear = ZeroBuffer
    /\ pc = "idle"
    /\ renderList = <<>>
    /\ renderIdx = 0
    /\ cullList = <<>>
    /\ cullIdx = 0
    /\ cull = "undefined"
    /\ visibleEntities = <<>>
    /\ depthAtCall = ZeroBuffer
    /\ probed = {}
    /\ pushed = {}
    /\ clipIn \in {<<v1, v2, v3>> : v1 \in ClipVertices, v2 \in ClipVertices, v3 \in ClipVertices}
    /\ clipOut = [done |-> FALSE]
    /\ probeOut = [done |-> FALSE]
    /\ instance = SceneInstance

ClipApply ==
    /\ ~clipOut.done
    /\ clipOut' = [done |-> TRUE, result |-> ClipTriangle(clipIn[1], clipIn[2], clipIn[3])]
    /\ UNCHANGED <<clipIn, probeOut, rendererVars, instance>>

NextClip == ClipApply

SpecClip == InitClip /\ [][NextClip]_vars

\* the depth data after the entity loop of render(list), from `depth`
RECURSIVE RenderFrom(_, _, _)
RenderFrom(depth, list, i) ==
    IF i > Len(list) \/ ~IsDepthBuffer(depth) THEN depth
    ELSE RenderFrom(RenderTriangles(depth, _createTrianglesForEntity(Occluders[list[i]]), 1),
                    list, i + 1)

\* the depth data a fresh renderer holds after render(list)
RenderAll(list) == RenderFrom(ZeroBuffer, list, 1)

-----------------------------------------------------------------------------
(* One triangle on its own: a triangle over a grid of camera-space vertices  *)
(* in front of the near plane is rendered as the only occluder, and probed   *)
(* against the depth data it left or against the depth data of a scene.      *)

TriMaxX == 2
TriMaxY == 1
TriDepth == 2

\* on the screen the grid reaches past all four sides: at z = -1 pixel
\* coordinates -3/2 .. 9/2, at z = -2 pixel coordinates 0 .. 3
TriVertices ==
    {V(x, 2 * y, z) : x \in ((-TriMaxX)..TriMaxX) \ {0}, y \in (-TriMaxY)..TriMaxY,
                      z \in (-TriDepth)..(-1)}

\* an occluder entity whose mesh is the one triangle t
TriEntity(t) == [positions |-> t, indices |-> <<1, 2, 3>>, translation |-> NoTranslation]

\* the screen-space triangle a bounding-volume module hands to the probe
ScreenTriangle(t) == _transformToScreenSpace(_projectionTransform(t))

\* the render list of the scene: the full-screen quad
TriSceneList == <<1>>

InitTri ==
    /\ depthData = ZeroBuffer
    /\ depthClear = ZeroBuffer
    /\ pc = "idle"
    /\ renderList = <<>>
    /\ renderIdx = 0
    /\ cullList = <<>>
    /\ cullIdx = 0
    /\ cull = "undefined"
    /\ visibleEntities = <<>>
    /\ depthAtCall = ZeroBuffer
    /\ probed = {}
    /\ pushed = {}
    /\ clipIn \in {<<v1, v2, v3>> : v1 \in TriVertices, v2 \in TriVertices, v3 \in TriVertices}
    /\ clipOut = [done |-> FALSE]
    /\ probeOut = [done |-> FALSE]
    /\ instance = SceneInstance

\* render([entity]) for the entity made of the triangle
TriRender ==
    /\ pc = "idle"
    /\ ~probeOut.done
    /\ depthData' = RenderTriangles(_clearDepthData,
                                    _createTrianglesForEntity(TriEntity(clipIn)), 1)
    /\ pc' = "rendered"
    /\ UNCHANGED <<depthClear, renderList, renderIdx, cullList, cullIdx, cull,
                   visibleEntities, depthAtCall, probed, pushed, clipIn, clipOut, probeOut, instance>>

\* render(TriSceneList)
TriScene ==
    /\ pc = "idle"
    /\ ~probeOut.done
    /\ depthData' = RenderFrom(_clearDepthData, TriSceneList, 1)
    /\ pc' = "scene"
    /\ UNCHANGED <<depthClear, renderList, renderIdx, cullList, cullIdx, cull,
                   visibleEntities, depthAtCall, probed, pushed, clipIn, clipOut, probeOut, instance>>

\* isRenderedTriangleOccluded(triangle) for the projected triangle
TriProbe ==
    /\ pc \in {"rendered", "scene"}
    /\ ~probeOut.done
    /\ probeOut' = [done |-> TRUE,
                    occluded |-> isRenderedTriangleOccluded(depthData, ScreenTriangle(clipIn))]
    /\ UNCHANGED <<clipIn, clipOut, rendererVars, instance>>

NextTri == TriRender \/ TriScene \/ TriProbe

SpecTri == InitTri /\ [][NextTri]_vars

-----------------------------------------------------------------------------
(* Empty-scene harness: a renderer whose depth data a previous render() may *)
(* have filled, render([]), and performOcclusionCulling of one candidate.   *)
(* Submission harness: the same renderer and render() of one occluder, well *)
(* formed or malformed.                                                     *)

InitUsed ==
    /\ depthData \in {RenderAll(list) : list \in SeqsUpTo(OccluderIds, 1)}
    /\ depthClear = ZeroBuffer
    /\ pc = "idle"
    /\ renderList = <<>>
    /\ renderIdx = 0
    /\ cullList = <<>>
    /\ cullIdx = 0
    /\ cull = "undefined"
    /\ visibleEntities = <<>>
    /\ depthAtCall = depthData
    /\ probed = {}
    /\ pushed = {}
    /\ clipIn = <<>>
    /\ clipOut = [done |-> FALSE]
    /\ probeOut = [done |-> FALSE]
    /\ instance = SceneInstance

RenderEmpty == RenderCall(<<>>)

CullSingle == \E c \in DOMAIN AllCandidates : CullCall(<<c>>)

NextEmpty == RenderEmpty \/ RenderReturn \/ CullSingle \/ CullEntity \/ CullReturn

SpecEmpty == InitUsed /\ [][NextEmpty]_vars

RenderSingle == \E o \in DOMAIN AllOccluders : RenderCall(<<o>>)

NextShape == RenderSingle \/ RenderEntity \/ RenderReturn

SpecShape == InitUsed /\ [][NextShape]_vars

-----------------------------------------------------------------------------
(* Construction harness: new SoftwareRenderer(parameters) for parameters in *)
(* and out of range, then render([]) and performOcclusionCulling([]) on the *)
(* instance.                                                                *)

ConfigSizes == {-2, -1, 0, 1, 2, 4}

ConfigCameras ==
    {[present |-> FALSE]} \cup {[present |-> TRUE, near |-> n, far |-> far] : n \in {-1, 0, 1}}

ConfigParameters ==
    {[width |-> w, height |-> h, camera |-> c] :
        w \in ConfigSizes, h \in ConfigSizes, c \in ConfigCameras}

\* a Float32Array of n elements, all 0
ClearArray(n) == [p \in 0..(n - 1) |-> I(0)]

NoInstance == [thrown |-> "none", numOfPixels |-> 0, camera |-> [present |-> FALSE]]

InitConfig ==
    /\ pc = "new"
    /\ instance = NoInstance
    /\ depthData = ClearArray(0)
    /\ depthClear = ClearArray(0)
    /\ renderList = <<>>
    /\ renderIdx = 0
    /\ cullList = <<>>
    /\ cullIdx = 0
    /\ cull = "undefined"
    /\ visibleEntities = <<>>
    /\ depthAtCall = ClearArray(0)
    /\ probed = {}
    /\ pushed = {}
    /\ clipIn = <<>>
    /\ clipOut = [done |-> FALSE]
    /\ probeOut = [done |-> FALSE]

\* new SoftwareRenderer(parameters): an exception leaves no instance
Construct ==
    /\ pc = "new"
    /\ \E parameters \in ConfigParameters :
          /\ instance' = SoftwareRenderer(parameters)
          /\ IF SoftwareRenderer(parameters).thrown = "none"
             THEN /\ pc' = "idle"
                  /\ depthData' = ClearArray(parameters.width * parameters.height)
                  /\ depthClear' = ClearArray(parameters.width * parameters.height)
                  /\ depthAtCall' = ClearArray(parameters.width * parameters.height)
             ELSE /\ pc' = SoftwareRenderer(parameters).thrown
                  /\ UNCHANGED <<depthData, depthClear, depthAtCall>>
    /\ UNCHANGED <<renderList, renderIdx, cullList, cullIdx, cull, visibleEntities,
                   probed, pushed, clipIn, clipOut, probeOut>>

\* a call that ends in the TypeError of this.camera.getViewMatrix() with
\* this.camera undefined, after the statements before it
CameraTypeError(depthBefore) ==
    /\ pc = "idle"
    /\ ~instance.camera.present
    /\ pc' = "TypeError"
    /\ depthData' = depthBefore
    /\ UNCHANGED <<depthClear, renderList, renderIdx, cullList, cullIdx, cull,
                   visibleEntities, depthAtCall, probed, pushed, clipIn, clipOut,
                   probeOut, instance>>

\* render([]) on the instance: _clearDepthData(), then the camera matrices
ConfigRender ==
    /\ pc = "idle"
    /\ IF instance.camera.present THEN RenderCall(<<>>) ELSE CameraTypeError(_clearDepthData)

\* performOcclusionCulling([]) on the instance: the camera matrices first
ConfigCull ==
    /\ pc = "idle"
    /\ IF instance.camera.present THEN CullCall(<<>>) ELSE CameraTypeError(depthData)

NextConfig == Construct \/ ConfigRender \/ ConfigCull \/ RenderReturn \/ CullReturn

SpecConfig == InitConfig /\ [][NextConfig]_vars

-----------------------------------------------------------------------------
(* Properties *)

\* render() has run its loop to the end and is about to return
RenderDone == pc = "render" /\ renderIdx > Len(renderList)

\* performOcclusionCulling() has run its loop to the end and is about to return
CullDone == pc = "cull" /\ cullIdx > Len(cullList)

NonZero(depth) == \E p \in Pixels : depth[p] # I(0)

Reorderings(list) ==
    {[i \in DOMAIN list |-> list[f[i]]] :
        f \in {g \in [DOMAIN list -> DOMAIN list] : \A i, j \in DOMAIN list : g[i] = g[j] => i = j}}

RECURSIVE PickPositions(_, _, _)
PickPositions(list, keep, i) ==
    IF i > Len(list) THEN <<>>
    ELSE (IF i \in keep THEN <<list[i]>> ELSE <<>>) \o PickPositions(list, keep, i + 1)

SubLists(list) == {PickPositions(list, keep, 1) : keep \in SUBSET DOMAIN list}

RECURSIVE IsSubsequence(_, _)
IsSubsequence(a, b) ==
    IF a = <<>> THEN TRUE
    ELSE IF b = <<>> THEN FALSE
    ELSE IF Head(a) = Head(b) THEN IsSubsequence(Tail(a), Tail(b))
    ELSE IsSubsequence(a, Tail(b))

\* C1: after render([]) every depth cell is 0, whatever the buffer held before.
C1_ClearOnEmptyRender ==
    (RenderDone /\ renderList = <<>>) => \A p \in Pixels : depthData[p] = I(0)

C1_Witness == RenderDone /\ renderList = <<>> /\ NonZero(depthAtCall)

HasProbe(entity) == ~IsNeverCull(entity) /\ IsProbed(entity)

\* C2: a candidate that is not 'never cull' is pushed to the visible list iff
\* the probe of its bound kind reports 'not occluded' for at least one emitted
\* triangle (it is left out iff every emitted triangle is occluded).
C2_VisibleIffSomeTriangleNotOccluded ==
    pc = "cull" =>
        \A i \in 1..(cullIdx - 1) :
            LET entity == Candidates[cullList[i]]
                emitted == EmittedTriangles(entity)
            IN  HasProbe(entity) =>
                    ((i \in pushed) <=>
                        \E k \in DOMAIN emitted : ~ProbeTriangle(depthData, emitted[k]))

C2_Witness ==
    /\ CullDone
    /\ Len(cullList) = 2
    /\ HasProbe(Candidates[cullList[1]])
    /\ HasProbe(Candidates[cullList[2]])
    /\ pushed = {2}
    /\ visibleEntities = <<cullList[2]>>

\* C3: a 'never cull' candidate is always in the list returned by cull and no
\* probe is run for it.
C3_NeverCullAlwaysVisible ==
    pc = "cull" =>
        \A i \in 1..(cullIdx - 1) :
            Candidates[cullList[i]].cullMode = "NeverOcclusionCull" =>
                /\ i \in pushed
                /\ i \notin probed
                /\ \E k \in DOMAIN visibleEntities : visibleEntities[k] = cullList[i]

\* the same box without the flag is culled in this depth buffer
C3_Witness ==
    /\ CullDone
    /\ cullList = <<1, 5>>
    /\ visibleEntities = <<5>>
    /\ probed = {1}

\* C4: the list returned by cull is a subsequence of the input list.
C4_VisibleIsSubsequence ==
    pc = "cull" =>
        /\ IsSubsequence(visibleEntities, SubSeq(cullList, 1, cullIdx - 1))
        /\ visibleEntities = PickPositions(cullList, pushed, 1)

C4_Witness ==
    /\ CullDone
    /\ Len(cullList) = 2
    /\ cullList[1] # cullList[2]
    /\ visibleEntities = cullList

\* C5: the occlusion probe never changes the depth data, whether it reports
\* occluded or exits early with not occluded.
C5_ProbeReadOnly == pc = "cull" => depthData = depthAtCall

C5_Witness ==
    /\ CullDone
    /\ NonZero(depthData)
    /\ probed = {1, 2}
    /\ Cardinality(pushed) = 1

\* every screen-space triangle of the entities of a list
RECURSIVE TrianglesOfList(_, _)
TrianglesOfList(list, i) ==
    IF i > Len(list) THEN <<>>
    ELSE _createTrianglesForEntity(Occluders[list[i]]) \o TrianglesOfList(list, i + 1)

PointwiseMax(a, b) == [p \in Pixels |-> Max(a[p], b[p])]

PointwiseLe(a, b) == \A p \in Pixels : Le(a[p], b[p])

\* per pixel, the largest of 0 and the depths each triangle alone writes on a
\* cleared buffer
RECURSIVE MaxContribution(_, _)
MaxContribution(triangles, t) ==
    IF t > Len(triangles) THEN ZeroBuffer
    ELSE PointwiseMax(_renderTriangle(ZeroBuffer, triangles[t]),
                      MaxContribution(triangles, t + 1))

\* C6: the depth data after render(L) is the same for every permutation of L,
\* and each cell is the maximum of the per-triangle contributions at that cell.
C6_OrderIndependent ==
    RenderDone =>
        /\ \A perm \in Reorderings(renderList) : RenderAll(perm) = depthData
        /\ depthData = MaxContribution(TrianglesOfList(renderList, 1), 1)

\* some pixel both buffers cover, the second with the smaller depth
CoveredDeeper(a, b) == \E p \in Pixels : a[p] # I(0) /\ b[p] # I(0) /\ Lt(b[p], a[p])

\* two occluders that both write some pixel with different depths
C6_Witness ==
    /\ RenderDone
    /\ Len(renderList) = 2
    /\ CoveredDeeper(RenderAll(<<renderList[1]>>), RenderAll(<<renderList[2]>>))

\* C7: if list A is a sub-list of B, every pixel after render(B) is at least
\* as deep as after render(A).
C7_MonotoneInOccluders ==
    RenderDone => \A sub \in SubLists(renderList) : PointwiseLe(RenderAll(sub), depthData)

SomewhereLess(a, b) == \E p \in Pixels : Lt(a[p], b[p])

\* each of two occluders alone leaves some pixel shallower than both together
C7_Witness ==
    /\ RenderDone
    /\ Len(renderList) = 2
    /\ SomewhereLess(RenderAll(<<renderList[1]>>), depthData)
    /\ SomewhereLess(RenderAll(<<renderList[2]>>), depthData)

\* C8: the depth data after render(L) depends on L only, not on what earlier
\* calls left in the buffer.
C8_RenderIndependentOfHistory == RenderDone => depthData = RenderAll(renderList)

C8_Witness ==
    /\ RenderDone
    /\ renderList # <<>>
    /\ NonZero(depthAtCall)
    /\ SomewhereLess(depthData, depthAtCall)

InsideCount(triangle) == Cardinality({i \in 1..3 : triangle[i][3][1] <= -near})

\* C9: for a front-facing triangle the clipper emits 0, 1, 2 or 1 triangles
\* when 0, 3, 2 or 1 of its vertices are inside the near plane (z <= -near).
C9_ClipperOutputCount ==
    (clipOut.done /\ ~clipOut.result.backFacing) =>
        Len(clipOut.result.triangles) =
            CASE InsideCount(clipIn) = 0 -> 0
              [] InsideCount(clipIn) = 3 -> 1
              [] InsideCount(clipIn) = 2 -> 2
              [] InsideCount(clipIn) = 1 -> 1

\* two inside, one of them exactly on the near plane
C9_Witness ==
    /\ clipOut.done
    /\ ~clipOut.result.backFacing
    /\ Len(clipOut.result.triangles) = 2
    /\ \E i \in 1..3 : clipIn[i][3] = I(-near)
    /\ \E i \in 1..3 : clipIn[i][3] = I(-near - 1)

-----------------------------------------------------------------------------
(* Vectors of camera space, for the statements about winding *)

Cross3(a, b) ==
    <<Sub(Mul(a[2], b[3]), Mul(a[3], b[2])),
      Sub(Mul(a[3], b[1]), Mul(a[1], b[3])),
      Sub(Mul(a[1], b[2]), Mul(a[2], b[1]))>>

Dot3(a, b) == Add(Add(Mul(a[1], b[1]), Mul(a[2], b[2])), Mul(a[3], b[3]))

Diff3(a, b) == <<Sub(a[1], b[1]), Sub(a[2], b[2]), Sub(a[3], b[3])>>

Zero3 == <<I(0), I(0), I(0)>>

\* e1 x e2 with e1 = v2 - v1, e2 = v3 - v1: towards the viewer of a
\* counter-clockwise triangle
Normal(t) == Cross3(Diff3(t[2], t[1]), Diff3(t[3], t[1]))

\* t has the winding of ref (both in one plane), or no area at all
WindingAgrees(t, ref) == Normal(t) = Zero3 \/ Gt(Dot3(Normal(t), Normal(ref)), I(0))

\* p lies on the line through a and b
OnLine(p, a, b) == Cross3(Diff3(p, a), Diff3(b, a)) = Zero3

\* C11: a front-facing triangle with all three vertices inside the near plane
\* (z <= -near) leaves the clipper as one triangle with the same three
\* vertices in the same order, no coordinate changed.
C11_InsideTriangleUnchanged ==
    (clipOut.done /\ ~clipOut.result.backFacing /\ InsideCount(clipIn) = 3) =>
        clipOut.result.triangles = <<clipIn>>

\* a proper triangle touching the near plane with one vertex
C11_Witness ==
    /\ clipOut.done
    /\ ~clipOut.result.backFacing
    /\ InsideCount(clipIn) = 3
    /\ Normal(clipIn) # Zero3
    /\ \E i \in 1..3 : clipIn[i][3] = I(-near)
    /\ clipOut.result.triangles = <<clipIn>>

\* exactly one vertex outside the near plane, the triangle not dropped
OneOutside ==
    clipOut.done /\ ~clipOut.result.backFacing /\ Len(clipOut.result.outside) = 1

\* the two triangles are (out0, in0, new1) and (new1, in0, in1): out0 moved
\* onto the near plane along the edge to in0, new1 on the edge to in1
QuadShape(tris, out0, in0, in1) ==
    /\ Len(tris) = 2
    /\ tris[1][2] = in0
    /\ tris[2][2] = in0
    /\ tris[2][3] = in1
    /\ tris[1][3] = tris[2][1]
    /\ tris[1][1][3] = I(-near)
    /\ tris[2][1][3] = I(-near)
    /\ OnLine(tris[1][1], out0, in0)
    /\ OnLine(tris[2][1], out0, in1)

\* C12 as stated: with one vertex outside, the two triangles are
\* (out0, in0, new1) and (new1, in0, in1) and both keep the winding of the
\* input triangle, wherever the outside vertex sits.
C12_WindingKept ==
    OneOutside =>
        /\ QuadShape(clipOut.result.triangles, clipIn[clipOut.result.outside[1]],
                     clipIn[clipOut.result.inside[1]], clipIn[clipOut.result.inside[2]])
        /\ \A t \in DOMAIN clipOut.result.triangles :
              WindingAgrees(clipOut.result.triangles[t], clipIn)

\* C12, amended: with one vertex outside, the two triangles are
\* (out0, in0, new1) and (new1, in0, in1) and both have the winding of
\* (out0, in0, in1): the input's winding when the outside vertex is at index
\* 0 or 2, the reverse when it is at index 1.
C12_WindingOfOutInIn ==
    OneOutside =>
        /\ QuadShape(clipOut.result.triangles, clipIn[clipOut.result.outside[1]],
                     clipIn[clipOut.result.inside[1]], clipIn[clipOut.result.inside[2]])
        /\ \A t \in DOMAIN clipOut.result.triangles :
              /\ WindingAgrees(clipOut.result.triangles[t],
                               <<clipIn[clipOut.result.outside[1]],
                                 clipIn[clipOut.result.inside[1]],
                                 clipIn[clipOut.result.inside[2]]>>)
              /\ clipOut.result.outside[1] # 2 =>
                    WindingAgrees(clipOut.result.triangles[t], clipIn)
              /\ clipOut.result.outside[1] = 2 =>
                    WindingAgrees(clipOut.result.triangles[t],
                                  <<clipIn[1], clipIn[3], clipIn[2]>>)

\* the outside vertex in the middle, both emitted triangles with an area
C12_Witness ==
    /\ OneOutside
    /\ clipOut.result.outside[1] = 2
    /\ Len(clipOut.result.triangles) = 2
    /\ \A t \in DOMAIN clipOut.result.triangles :
          /\ Normal(clipOut.result.triangles[t]) # Zero3
          /\ ~WindingAgrees(clipOut.result.triangles[t], clipIn)

\* (e1 x e2) . v1 and (e2 x e1) . v1 of the triangle handed to the clipper
FacingDot == Dot3(Normal(clipIn), clipIn[1])

ReversedFacingDot ==
    Dot3(Cross3(Diff3(clipIn[3], clipIn[1]), Diff3(clipIn[2], clipIn[1])), clipIn[1])

\* C13 as stated: a triangle is dropped, before clipping, exactly when
\* (e2 x e1) . v1 is positive; with zero or a negative value it is kept.
C13_DropIffReversedCrossPositive ==
    clipOut.done =>
        /\ clipOut.result.backFacing <=> Gt(ReversedFacingDot, I(0))
        /\ clipOut.result.backFacing => clipOut.result.triangles = <<>>

\* C13, amended: a triangle is dropped, before clipping, exactly when
\* (e1 x e2) . v1 is positive, where e1 = v2 - v1 and e2 = v3 - v1; with zero
\* or a negative value it goes on to the clipper.
C13_DropIffCrossPositive ==
    clipOut.done =>
        /\ clipOut.result.backFacing <=> Gt(FacingDot, I(0))
        /\ clipOut.result.backFacing => clipOut.result.triangles = <<>>
        /\ (~clipOut.result.backFacing /\ InsideCount(clipIn) > 0) =>
              clipOut.result.triangles # <<>>

\* a back-facing triangle crossing the near plane: dropped, not clipped
C13_Witness ==
    /\ clipOut.done
    /\ clipOut.result.backFacing
    /\ Gt(FacingDot, I(0))
    /\ Len(clipOut.result.outside) = 1
    /\ clipOut.result.triangles = <<>>

\* twice the signed area of a screen-space triangle: positive when the
\* vertices run counter-clockwise (x to the right, y upwards)
SignedArea(s) ==
    Sub(Mul(Sub(s[2][1], s[1][1]), Sub(s[3][2], s[1][2])),
        Mul(Sub(s[3][1], s[1][1]), Sub(s[2][2], s[1][2])))

Clockwise(t) == Lt(SignedArea(ScreenTriangle(t)), I(0))

Reversed(t) == <<t[1], t[3], t[2]>>

\* C14: render of a single triangle in front of the camera whose vertices run
\* clockwise as seen from the camera leaves every depth cell 0, and the same
\* triangle with its vertices in counter-clockwise order passes the back-face
\* test.
C14_ClockwiseWritesNothing ==
    (pc = "rendered" /\ Clockwise(clipIn)) =>
        /\ depthData = ZeroBuffer
        /\ ~_isBackFacingCameraViewSpace(clipIn[1], clipIn[3], clipIn[2])

\* a clockwise triangle whose counter-clockwise twin writes depth
C14_Witness ==
    /\ pc = "rendered"
    /\ Clockwise(clipIn)
    /\ depthData = ZeroBuffer
    /\ NonZero(RenderTriangles(ZeroBuffer,
                               _createTrianglesForEntity(TriEntity(Reversed(clipIn))), 1))

-----------------------------------------------------------------------------
(* Footprints: the pixels of a screen-space triangle, line by line, from the *)
(* linear interpolation of its long and short edge at the line.              *)

\* x of edge e on line y: x0 + (y - y0) (x1 - x0) / (y1 - y0)
XAt(e, y) == Add(e.x0, Mul(Sub(I(y), e.y0), Div(Sub(e.x1, e.x0), Sub(e.y1, e.y0))))

\* line y is one of the lines of the short edge
OnLines(short, y) ==
    Gt(Sub(short.y1, short.y0), I(0)) /\ Le(short.y0, I(y)) /\ Le(I(y), short.y1)

\* ceil(realLeftX) <= x <= floor(realRightX) for the span ends a and b
InShrunkSpan(a, b, x) ==
    \/ Le(Ceil(a), I(x)) /\ Le(I(x), Floor(b))
    \/ Le(Ceil(b), I(x)) /\ Le(I(x), Floor(a))

InShrunkRow(long, short, x, y) ==
    OnLines(short, y) /\ InShrunkSpan(XAt(long, y), XAt(short, y), x)

\* the shrunk footprint of the triangle with the picked edges e
ShrunkFootprint(e) ==
    {p \in Pixels : \/ InShrunkRow(e.long, e.short1, p % width, p \div width)
                    \/ InShrunkRow(e.long, e.short2, p % width, p \div width)}

WrittenPixels(depth) == {p \in Pixels : Gt(depth[p], I(0))}

ShrunkFootprints(triangles) ==
    UNION {ShrunkFootprint(OccluderEdges(TriangleEdges(triangles[k]))) : k \in DOMAIN triangles}

\* a line of the triangle on the screen whose shrunk span is empty
HasEmptyLine(e, footprint) ==
    \E y \in 0.._clipY :
        /\ OnLines(e.short1, y) \/ OnLines(e.short2, y)
        /\ \A x \in 0.._clipX : (y * width + x) \notin footprint

InDilatedSpan(a, b, x) ==
    \/ Le(Floor(a), I(x)) /\ Le(I(x), Ceil(b))
    \/ Le(Floor(b), I(x)) /\ Le(I(x), Ceil(a))

InDilatedRow(long, short, x, y) ==
    OnLines(short, y) /\ InDilatedSpan(XAt(long, y), XAt(short, y), x)

\* the on-screen pixels of the dilated footprint of the triangle with the
\* picked edges e
DilatedFootprint(e) ==
    {p \in Pixels : \/ InDilatedRow(e.long, e.short1, p % width, p \div width)
                    \/ InDilatedRow(e.long, e.short2, p % width, p \div width)}

\* the buffer with the stored depth of pixel p below every probe depth
Lowered(depth, p) == [depth EXCEPT ![p] = I(-1)]

\* the probe of tri against depth, which returned 'occluded', compared pixel p:
\* with the stored depth of p lowered the comparison at p fails
Compared(depth, tri, p) == ~isRenderedTriangleOccluded(Lowered(depth, p), tri)

AllCompared(depth, tri, pixels) == \A p \in pixels : Compared(depth, tri, p)

\* C16: whenever the probe of a triangle returns 'occluded', every on-screen
\* pixel (x, y) of the dilated footprint, every scanline y of the triangle and
\* every x with floor(realLeftX) <= x <= ceil(realRightX) clipped to
\* [0, clipX], was compared against the depth buffer.
C16_ProbeComparesDilatedFootprint ==
    (probeOut.done /\ probeOut.occluded) =>
        AllCompared(depthData, ScreenTriangle(clipIn),
                    DilatedFootprint(OccludeeEdges(TriangleEdges(ScreenTriangle(clipIn)))))

-----------------------------------------------------------------------------
(* The comparisons of a probe: the pixels and probe depths the loops of     *)
(* isRenderedTriangleOccluded visit when no comparison ends them early, in  *)
(* closed form.                                                             *)

\* edgeData after k calls of _updateEdgeDataToNextLine
EdgeDataAt(ed, k) ==
    [ed EXCEPT !.longX = Add(ed.longX, Mul(I(k), ed.longXInc)),
               !.shortX = Add(ed.shortX, Mul(I(k), ed.shortXInc)),
               !.longZ = Add(ed.longZ, Mul(I(k), ed.longZInc)),
               !.shortZ = Add(ed.shortZ, Mul(I(k), ed.shortZInc))]

\* probe depth of pixel i of the clipped span c
ProbeDepthAt(c, i) ==
    IF i = c[1][1] THEN c[3]
    ELSE Add(c[3], Mul(I(i - c[1][1]), Div(Sub(c[4], c[3]), Sub(c[2], c[1]))))

\* <<pixel, probe depth>> for the pixels of the clipped span c on line y
ClippedProbes(c, y) ==
    IF ~IsFinite(c[1]) \/ ~IsFinite(c[2]) THEN {}
    ELSE {<<y * width + i, ProbeDepthAt(c, i)>> : i \in c[1][1]..c[2][1]}

SpanProbes(sp, y) ==
    IF SpanRejected(sp[1], sp[2]) THEN {}
    ELSE ClippedProbes(ClipSpan(sp[1], sp[2], sp[3], sp[4]), y)

HalfProbes(ed, orientationData) ==
    IF ~ed.valid THEN {}
    ELSE IF ~IsFinite(ed.startLine) \/ ~IsFinite(ed.stopLine) THEN {}
    ELSE UNION {SpanProbes(OccludeeSpan(EdgeDataAt(ed, y - ed.startLine[1]), orientationData), y) :
                    y \in ed.startLine[1]..ed.stopLine[1]}

OrientedProbes(e, eds, orientationData) ==
    IF _horizontalLongEdgeCull(e.long, orientationData) THEN {}
    ELSE HalfProbes(eds[1], orientationData) \cup HalfProbes(eds[2], orientationData)

PickedProbes(e, eds) ==
    IF ~eds[1].valid /\ ~eds[2].valid THEN {}
    ELSE OrientedProbes(e, eds, OrientationOf(e, eds))

EdgeProbes(e) ==
    IF _verticalLongEdgeCull(e.rawLong) THEN {}
    ELSE PickedProbes(e, EdgeDataOf(e))

\* the probed pixels of a screen-space triangle, each with its probe depth
ProbedPixels(triangle) == EdgeProbes(OccludeeEdges(TriangleEdges(triangle)))

SomeGreater(depth, probes) == \E pr \in probes : Gt(pr[2], depth[pr[1]])

AllLessOrEqual(depth, probes) == \A pr \in probes : Le(pr[2], depth[pr[1]])

SomeEqual(depth, probes) ==
    \E pr \in probes : Gt(pr[2], I(0)) /\ pr[2] = depth[pr[1]]

VerdictIsStrictComparison(occluded, depth, probes) ==
    /\ ~occluded <=> SomeGreater(depth, probes)
    /\ occluded <=> AllLessOrEqual(depth, probes)

\* C17: the probe of a triangle returns 'not occluded' exactly when some
\* probed pixel p has probe depth strictly greater than the stored depth[p],
\* and 'occluded' exactly when every probed pixel has probe depth <= depth[p];
\* probe depth equal to the stored depth counts as occluded.
C17_ProbeVerdictIsStrictComparison ==
    probeOut.done =>
        VerdictIsStrictComparison(probeOut.occluded, depthData,
                                  ProbedPixels(ScreenTriangle(clipIn)))

\* a probe that returned 'occluded' with a probed pixel whose probe depth
\* equals the stored depth
C17_Witness ==
    /\ probeOut.done
    /\ probeOut.occluded
    /\ SomeEqual(depthData, ProbedPixels(ScreenTriangle(clipIn)))

-----------------------------------------------------------------------------
(* Empty scene *)

\* the emitted triangle e is near-clipped or has a probed pixel with a
\* positive probe depth
TriangleInView(e) ==
    e.nearClipped \/ \E pr \in ProbedPixels(e.tri) : Gt(pr[2], I(0))

SomeTriangleInView(emitted) == \E k \in DOMAIN emitted : TriangleInView(emitted[k])

\* the candidate is not probed at all, or some triangle of its bound is in view
CandidateInView(entity) == ~HasProbe(entity) \/ SomeTriangleInView(EmittedTriangles(entity))

\* cull([candidate]) has run to its end on the depth data render([]) leaves
EmptySceneCullDone == CullDone /\ Len(cullList) = 1 /\ depthAtCall = ZeroBuffer

\* C18 as stated: after render([]), cull([candidate]) returns a list
\* containing the candidate, for any candidate, and the depth buffer is all
\* zeros afterwards.
C18_EmptySceneEveryCandidateVisible ==
    EmptySceneCullDone => (visibleEntities = cullList /\ depthData = ZeroBuffer)

\* C18, amended: after render([]), cull([candidate]) returns a list containing
\* the candidate exactly when the candidate is 'never cull', has a bound that
\* is neither a box nor a sphere, or has a bounding triangle that is
\* near-clipped or has a probed pixel with positive probe depth; otherwise it
\* returns the empty list; the depth buffer is all zeros afterwards.
C18_EmptySceneVisibleIffInView ==
    EmptySceneCullDone =>
        /\ depthData = ZeroBuffer
        /\ visibleEntities = (IF CandidateInView(AllCandidates[cullList[1]])
                              THEN cullList ELSE <<>>)

\* a probed candidate with no near-clipped triangle that is returned, after
\* one beside the view was left out: both directions of the amended claim
C18_Witness ==
    /\ EmptySceneCullDone
    /\ HasProbe(AllCandidates[cullList[1]])
    /\ \A k \in DOMAIN EmittedTriangles(AllCandidates[cullList[1]]) :
           ~EmittedTriangles(AllCandidates[cullList[1]])[k].nearClipped
    /\ visibleEntities = cullList
    /\ \E c \in DOMAIN AllCandidates : ~CandidateInView(AllCandidates[c])

-----------------------------------------------------------------------------
(* Malformed occluders *)

\* the index buffer length is not a multiple of 3, or an index is out of range
\* of the position buffer
Malformed(entity) ==
    \/ Len(entity.indices) % 3 # 0
    \/ \E k \in DOMAIN entity.indices : entity.indices[k] \notin DOMAIN entity.positions

\* C19: render halts at an occluder whose index buffer length is not a
\* multiple of 3 or that has an index out of range of the position buffer (it
\* reports a ShapeError instead of finishing the occluder's iteration), and no
\* triangle built from such an occluder is rasterized into the depth buffer.
C19_MalformedOccluderHaltsRender ==
    (pc = "render" /\ Len(renderList) = 1 /\ Malformed(AllOccluders[renderList[1]])) =>
        (renderIdx = 1 /\ depthData = ZeroBuffer)

-----------------------------------------------------------------------------
(* Construction parameters out of range *)

\* width and height positive, a camera, near > 0
ValidParameters(r) ==
    /\ r.thrown = "none"
    /\ r.width > 0
    /\ r.height > 0
    /\ r.camera.present
    /\ r.camera.near > 0

\* C20: constructing the renderer with a non-positive width or height, a
\* missing camera or near <= 0 reports an error at construction, so no
\* renderer instance with such parameters ever reaches render or cull.
C20_InvalidParametersNeverReachRender ==
    pc \in {"idle", "render", "cull"} => ValidParameters(instance)

-----------------------------------------------------------------------------
(* Depth range *)

\* 0 <= z <= 1.0000001 for a quotient z in lowest terms:
\* z[1] / z[2] <= 1 + 1/10000000 iff z[1] - z[2] <= z[2] / 10000000
InDepthRange(z) ==
    /\ IsFinite(z)
    /\ z[1] >= 0
    /\ z[1] - z[2] <= z[2] \div 10000000

-----------------------------------------------------------------------------
(* One span: _fillPixels and _isScanlineOccluded on their own *)

SpanMargin == 1
SpanXs == (0 - SpanMargin)..(_clipX + SpanMargin)
SpanDepths == {I(0), Q(1, 2), I(1)}

\* the depth of the line through (leftX, leftZ) and (rightX, rightZ) at x
LinearDepth(s, x) ==
    IF s.leftX = s.rightX THEN s.leftZ
    ELSE Add(s.leftZ, Mul(I(x - s.leftX), Div(Sub(s.rightZ, s.leftZ), I(s.rightX - s.leftX))))

\* a buffer that stores on line y exactly the linear depth of the span
LinearBuffer(s) ==
    [p \in Pixels |->
        IF p \div width = s.y /\ s.leftX <= p % width /\ p % width <= s.rightX
        THEN LinearDepth(s, p % width) ELSE I(0)]

InitSpan ==
    /\ depthData = ZeroBuffer
    /\ depthClear = ZeroBuffer
    /\ pc = "idle"
    /\ renderList = <<>>
    /\ renderIdx = 0
    /\ cullList = <<>>
    /\ cullIdx = 0
    /\ cull = "undefined"
    /\ visibleEntities = <<>>
    /\ depthAtCall = ZeroBuffer
    /\ probed = {}
    /\ pushed = {}
    /\ clipIn \in [leftX : SpanXs, rightX : SpanXs, y : 0.._clipY,
                   leftZ : SpanDepths, rightZ : SpanDepths]
    /\ clipOut = [done |-> FALSE]
    /\ probeOut = [done |-> FALSE]
    /\ instance = SceneInstance

\* _fillPixels(leftX, rightX, y, leftZ, rightZ) on the cleared buffer
SpanFill ==
    /\ pc = "idle"
    /\ ~probeOut.done
    /\ depthData' = _fillPixels(depthData, I(clipIn.leftX), I(clipIn.rightX), I(clipIn.y),
                                clipIn.leftZ, clipIn.rightZ)
    /\ pc' = "filled"
    /\ UNCHANGED <<depthClear, renderList, renderIdx, cullList, cullIdx, cull,
                   visibleEntities, depthAtCall, probed, pushed, clipIn, clipOut, probeOut, instance>>

\* _isScanlineOccluded(leftX, rightX, y, leftZ, rightZ) against the buffer
\* that stores the span's own linear depth
SpanScan ==
    /\ pc = "idle"
    /\ ~probeOut.done
    /\ probeOut' = [done |-> TRUE,
                    occluded |-> _isScanlineOccluded(LinearBuffer(clipIn), I(clipIn.leftX),
                                     I(clipIn.rightX), I(clipIn.y), clipIn.leftZ, clipIn.rightZ)]
    /\ UNCHANGED <<clipIn, clipOut, rendererVars, instance>>

NextSpan == SpanFill \/ SpanScan

SpecSpan == InitSpan /\ [][NextSpan]_vars

\* the span lies wholly inside the screen
SpanInside(s) == 0 <= s.leftX /\ s.leftX <= s.rightX /\ s.rightX <= _clipX

\* C22: a span with 0 <= leftX <= rightX <= clipX (rightX = clipX included) is
\* not clipped: the first pixel gets leftZ and the last pixel rightZ, on the
\* occluder path and in the comparison of the probe.
C22_InsideSpanKeepsEndDepths ==
    /\ pc = "filled" /\ SpanInside(clipIn) =>
           /\ depthData[clipIn.y * width + clipIn.leftX] = clipIn.leftZ
           /\ clipIn.leftX < clipIn.rightX =>
                  depthData[clipIn.y * width + clipIn.rightX] = clipIn.rightZ
    /\ probeOut.done /\ SpanInside(clipIn) => probeOut.occluded

\* the same for the spans that end before the last column
SpanBeforeClipXKeepsEndDepths ==
    /\ pc = "filled" /\ SpanInside(clipIn) /\ clipIn.rightX < _clipX =>
           /\ depthData[clipIn.y * width + clipIn.leftX] = clipIn.leftZ
           /\ clipIn.leftX < clipIn.rightX =>
                  depthData[clipIn.y * width + clipIn.rightX] = clipIn.rightZ
    /\ probeOut.done /\ SpanInside(clipIn) /\ clipIn.rightX < _clipX => probeOut.occluded

-----------------------------------------------------------------------------
(* One screen-space triangle: _renderTriangle and isRenderedTriangleOccluded *)
(* on triangles that reach past every side of the screen                    *)

ScreenXs == {I(-1), Q(3, 2), I(4)}
ScreenYs == {I(-2), Q(-1, 2), I(0), Q(3, 2), I(3), Q(7, 2), I(5)}
ScreenWs == {I(1), I(2)}

\* screen-space vertices <<x, y, z, w>> as _transformToScreenSpace leaves them
ScreenVertices == {<<x, y, I(0), w>> : x \in ScreenXs, y \in ScreenYs, w \in ScreenWs}

\* the triangles that pass the back-face test: counter-clockwise on the screen
ScreenTriangles ==
    {t \in {<<v1, v2, v3>> : v1 \in ScreenVertices, v2 \in ScreenVertices,
                             v3 \in ScreenVertices} : Gt(SignedArea(t), I(0))}

InitScreen ==
    /\ depthData = ZeroBuffer
    /\ depthClear = ZeroBuffer
    /\ pc = "idle"
    /\ renderList = <<>>
    /\ renderIdx = 0
    /\ cullList = <<>>
    /\ cullIdx = 0
    /\ cull = "undefined"
    /\ visibleEntities = <<>>
    /\ depthAtCall = ZeroBuffer
    /\ probed = {}
    /\ pushed = {}
    /\ clipIn \in ScreenTriangles
    /\ clipOut = [done |-> FALSE]
    /\ probeOut = [done |-> FALSE]
    /\ instance = SceneInstance

\* _renderTriangle(triangle) on the cleared buffer
ScreenRender ==
    /\ pc = "idle"
    /\ ~probeOut.done
    /\ depthData' = _renderTriangle(depthData, clipIn)
    /\ pc' = "rendered"
    /\ UNCHANGED <<depthClear, renderList, renderIdx, cullList, cullIdx, cull,
                   visibleEntities, depthAtCall, probed, pushed, clipIn, clipOut, probeOut, instance>>

\* isRenderedTriangleOccluded(triangle) against the cleared buffer or against
\* the triangle's own rendering
ScreenProbe ==
    /\ pc \in {"idle", "rendered"}
    /\ ~probeOut.done
    /\ probeOut' = [done |-> TRUE, occluded |-> isRenderedTriangleOccluded(depthData, clipIn)]
    /\ UNCHANGED <<clipIn, clipOut, rendererVars, instance>>

NextScreen == ScreenRender \/ ScreenProbe

SpecScreen == InitScreen /\ [][NextScreen]_vars

\* <<short edge, EdgeData>> for the two calls of _edgePreRenderProcess
EdgePairs(e) ==
    IF _verticalLongEdgeCull(e.rawLong) THEN {}
    ELSE {<<e.short1, _edgePreRenderProcess(e.long, e.short1)>>,
          <<e.short2, _edgePreRenderProcess(e.long, e.short2)>>}

\* the EdgeData returned so far for the triangle of the state
ReturnedEdgeData ==
    {pr \in (IF pc = "rendered" THEN EdgePairs(OccluderEdges(TriangleEdges(clipIn))) ELSE {})
            \cup (IF probeOut.done THEN EdgePairs(OccludeeEdges(TriangleEdges(clipIn)))
                  ELSE {}) : pr[2].valid}

OnScreenLine(y) == Le(I(0), y) /\ Le(y, I(_clipY))

\* C23 as stated: every EdgeData returned by _edgePreRenderProcess has
\* startLine and stopLine inside [0, clipY].
C23_BothLinesInsideScreen ==
    \A pr \in ReturnedEdgeData : OnScreenLine(pr[2].startLine) /\ OnScreenLine(pr[2].stopLine)

\* C23: every EdgeData returned by _edgePreRenderProcess has startLine >= 0 and
\* stopLine <= clipY; for a short edge wholly above the screen stopLine is its
\* y1 < 0, for one wholly below startLine is its y0 > clipY, so that
\* startLine > stopLine and no line is inside the range; otherwise both lie
\* inside [0, clipY].
C23_LinesClippedOneSided ==
    \A pr \in ReturnedEdgeData :
        /\ Le(I(0), pr[2].startLine)
        /\ Le(pr[2].stopLine, I(_clipY))
        /\ pr[2].stopLine = (IF Gt(pr[1].y1, I(_clipY)) THEN I(_clipY) ELSE pr[1].y1)
        /\ pr[2].startLine = Max(pr[1].y0, I(0))
        /\ (Lt(pr[1].y1, I(0)) \/ Gt(pr[1].y0, I(_clipY))) => Gt(pr[2].startLine, pr[2].stopLine)
        /\ ~(Lt(pr[1].y1, I(0)) \/ Gt(pr[1].y0, I(_clipY))) =>
               OnScreenLine(pr[2].startLine) /\ OnScreenLine(pr[2].stopLine)

\* a rendered triangle with a short edge wholly below the screen: its lines
\* start past clipY
C23_Witness ==
    /\ pc = "rendered"
    /\ \E pr \in ReturnedEdgeData :
           Gt(pr[1].y0, I(_clipY)) /\ Gt(pr[2].startLine, I(_clipY))

\* a probed triangle with a short edge wholly above the screen: its lines stop
\* before 0
ShortEdgeAboveProbed ==
    /\ probeOut.done
    /\ \E pr \in ReturnedEdgeData : Lt(pr[1].y1, I(0)) /\ Lt(pr[2].stopLine, I(0))

\* the long edge lies above or below the screen
LongEdgeOffVertically(e) == Lt(e.rawLong.y1, I(0)) \/ Gt(e.rawLong.y0, I(_clipY))

\* the long edge is the right side and lies left of the screen, or is the left
\* side and lies right of it
LongEdgeOffHorizontally(e, eds) ==
    /\ eds[1].valid \/ eds[2].valid
    /\ IF OrientationOf(e, eds)[1]
       THEN Lt(e.long.x0, I(0)) /\ Lt(e.long.x1, I(0))
       ELSE Gt(e.long.x0, I(_clipX)) /\ Gt(e.long.x1, I(_clipX))

LongEdgeOffScreen(e) ==
    LongEdgeOffVertically(e) \/ LongEdgeOffHorizontally(e, EdgeDataOf(e))

\* C24: a triangle whose long edge is off-screen (above or below the screen, or
\* beside it on the side away from the triangle) writes no depth when rendered
\* and is reported occluded by the probe, also against the all-zero buffer.
C24_OffScreenLongEdgeCulled ==
    /\ pc = "rendered" /\ LongEdgeOffScreen(OccluderEdges(TriangleEdges(clipIn))) =>
           depthData = ZeroBuffer
    /\ probeOut.done /\ LongEdgeOffScreen(OccludeeEdges(TriangleEdges(clipIn))) =>
           probeOut.occluded

\* a probe against the all-zero buffer of a triangle that ends above line 0
\* and whose rounded long edge reaches line 0
C24_Witness ==
    /\ pc = "idle"
    /\ probeOut.done
    /\ probeOut.occluded
    /\ Lt(OccludeeEdges(TriangleEdges(clipIn)).rawLong.y1, I(0))
    /\ OccludeeEdges(TriangleEdges(clipIn)).long.y1 = I(0)

\* a rendered triangle culled horizontally and one probed
HorizontallyCulled ==
    /\ pc = "rendered"
    /\ probeOut.done
    /\ ~LongEdgeOffVertically(OccluderEdges(TriangleEdges(clipIn)))
    /\ LongEdgeOffHorizontally(OccluderEdges(TriangleEdges(clipIn)),
                               EdgeDataOf(OccluderEdges(TriangleEdges(clipIn))))
    /\ LongEdgeOffHorizontally(OccludeeEdges(TriangleEdges(clipIn)),
                               EdgeDataOf(OccludeeEdges(TriangleEdges(clipIn))))

-----------------------------------------------------------------------------
(* Depth-buffer accesses: <<x, y, index>> for every pixel the loops of       *)
(* _fillPixels and _isScanlineOccluded visit when no comparison ends them.   *)

\* index = y * width + leftX, then index++ with every i++
ClippedAccesses(c, y) ==
    IF ~IsFinite(c[1]) \/ ~IsFinite(c[2]) THEN {}
    ELSE {<<i, y, (y * width + c[1][1]) + (i - c[1][1])>> : i \in c[1][1]..c[2][1]}

SpanAccesses(sp, y) ==
    IF SpanRejected(sp[1], sp[2]) THEN {}
    ELSE ClippedAccesses(ClipSpan(sp[1], sp[2], sp[3], sp[4]), y)

LineSpan(ed, orientationData, occluder) ==
    IF occluder THEN OccluderSpan(ed, orientationData) ELSE OccludeeSpan(ed, orientationData)

HalfAccesses(ed, orientationData, occluder) ==
    IF ~ed.valid THEN {}
    ELSE IF ~IsFinite(ed.startLine) \/ ~IsFinite(ed.stopLine) THEN {}
    ELSE UNION {SpanAccesses(LineSpan(EdgeDataAt(ed, y - ed.startLine[1]), orientationData,
                                      occluder), y) :
                    y \in ed.startLine[1]..ed.stopLine[1]}

OrientedAccesses(e, eds, orientationData, occluder) ==
    IF _horizontalLongEdgeCull(e.long, orientationData) THEN {}
    ELSE HalfAccesses(eds[1], orientationData, occluder)
             \cup HalfAccesses(eds[2], orientationData, occluder)

PickedAccesses(e, eds, occluder) ==
    IF ~eds[1].valid /\ ~eds[2].valid THEN {}
    ELSE OrientedAccesses(e, eds, OrientationOf(e, eds), occluder)

EdgeAccesses(e, occluder) ==
    IF _verticalLongEdgeCull(e.rawLong) THEN {}
    ELSE PickedAccesses(e, EdgeDataOf(e), occluder)

\* the accesses made so far for the triangle of the state
Accesses ==
    (IF pc = "rendered" THEN EdgeAccesses(OccluderEdges(TriangleEdges(clipIn)), TRUE) ELSE {})
        \cup (IF probeOut.done THEN EdgeAccesses(OccludeeEdges(TriangleEdges(clipIn)), FALSE)
              ELSE {})

\* C25: every depth-buffer access of _fillPixels and _isScanlineOccluded is at
\* index y * W + x with 0 <= x <= clipX and 0 <= y <= clipY, also for triangles
\* partly or wholly off the screen.
C25_AccessesInsideBuffer ==
    \A a \in Accesses :
        /\ 0 <= a[1] /\ a[1] <= _clipX
        /\ 0 <= a[2] /\ a[2] <= _clipY
        /\ a[3] = a[2] * width + a[1]
        /\ a[3] \in Pixels

\* a rendered and probed triangle that reaches past the screen on the left,
\* on the right, above and below, with accesses in the first and last column
\* and on the first and last line
C25_Witness ==
    /\ pc = "rendered"
    /\ probeOut.done
    /\ \E k \in 1..3 : Lt(clipIn[k][1], I(0))
    /\ \E k \in 1..3 : Gt(clipIn[k][1], I(_clipX))
    /\ \E k \in 1..3 : Lt(clipIn[k][2], I(0))
    /\ \E k \in 1..3 : Gt(clipIn[k][2], I(_clipY))
    /\ \E a \in Accesses : a[1] = 0
    /\ \E a \in Accesses : a[1] = _clipX
    /\ \E a \in Accesses : a[2] = 0
    /\ \E a \in Accesses : a[2] = _clipY
    /\ WrittenPixels(depthData) # {}

-----------------------------------------------------------------------------
(* Interpolants read line by line *)

\* <<y, edgeData>> as the loop of _drawEdges reads it on each line:
\* for (y = startLine; y <= stopLine; y++) { ...; _updateEdgeDataToNextLine }
RECURSIVE LineReads(_, _, _)
LineReads(edgeData, y, stopLine) ==
    IF y > stopLine THEN {}
    ELSE {<<y, edgeData>>} \cup LineReads(_updateEdgeDataToNextLine(edgeData), y + 1, stopLine)

\* z of edge e on line y: z0 + (y - y0) (z1 - z0) / (y1 - y0)
ZAt(e, y) == Add(e.z0, Mul(Sub(I(y), e.y0), Div(Sub(e.z1, e.z0), Sub(e.y1, e.y0))))

\* the interpolants read on line y are those of the two edges at y
ReadsInterpolate(long, short, read) ==
    /\ read[2].longX = XAt(long, read[1])
    /\ read[2].longZ = ZAt(long, read[1])
    /\ read[2].shortX = XAt(short, read[1])
    /\ read[2].shortZ = ZAt(short, read[1])

\* <<short edge, EdgeData>> of the rendered triangle of the state
DrawnEdgeData ==
    IF pc = "rendered"
    THEN {pr \in EdgePairs(OccluderEdges(TriangleEdges(clipIn))) : pr[2].valid}
    ELSE {}

\* C26: on every line y from startLine to stopLine of _drawEdges the long-edge
\* x and z read on the line equal the linear interpolation of the long edge at
\* y and the short-edge x and z that of the short edge at y, also when the
\* start line was clipped from a negative y to 0.
C26_InterpolantsFollowEdges ==
    \A pr \in DrawnEdgeData :
        \A read \in LineReads(pr[2], pr[2].startLine[1], pr[2].stopLine[1]) :
            ReadsInterpolate(OccluderEdges(TriangleEdges(clipIn)).long, pr[1], read)

\* a half drawn on lines 0..2 or more whose short edge starts above the screen
\* and whose four interpolants all change from line to line
C26_Witness ==
    \E pr \in DrawnEdgeData :
        /\ Lt(pr[1].y0, I(0))
        /\ pr[2].startLine = I(0)
        /\ Le(I(2), pr[2].stopLine)
        /\ pr[2].longXInc # I(0) /\ IsFinite(pr[2].longXInc)
        /\ pr[2].shortXInc # I(0) /\ IsFinite(pr[2].shortXInc)
        /\ pr[2].longZInc # I(0) /\ IsFinite(pr[2].longZInc)
        /\ pr[2].shortZInc # I(0) /\ IsFinite(pr[2].shortZInc)
        /\ WrittenPixels(depthData) # {}

-----------------------------------------------------------------------------
(* Heights after rounding *)

Height(edge) == Sub(edge.y1, edge.y0)

FiniteEdgeData(d) ==
    /\ IsFinite(d.longX) /\ IsFinite(d.shortX) /\ IsFinite(d.longZ) /\ IsFinite(d.shortZ)
    /\ IsFinite(d.longXInc) /\ IsFinite(d.shortXInc)
    /\ IsFinite(d.longZInc) /\ IsFinite(d.shortZInc)

\* a short edge with height > 0 comes with a long edge of height > 0, and the
\* quotients of its EdgeData are numbers
LongEdgeHasHeight(e) ==
    \A short \in {e.short1, e.short2} :
        Gt(Height(short), I(0)) =>
            /\ Gt(Height(e.long), I(0))
            /\ Le(Height(short), Height(e.long))
            /\ FiniteEdgeData(_edgePreRenderProcess(e.long, short))

\* C27: whenever a short edge has height > 0 after rounding, so that
\* _edgePreRenderProcess gets past its early exit, the long edge chosen by
\* _createEdgesForTriangle has height > 0 after rounding too, with the occluder
\* and with the occludee rounding, and no division by its height is by zero.
C27_LongEdgeHasHeight ==
    /\ pc = "rendered" => LongEdgeHasHeight(OccluderEdges(TriangleEdges(clipIn)))
    /\ probeOut.done => LongEdgeHasHeight(OccludeeEdges(TriangleEdges(clipIn)))

\* a triangle rendered and probed whose long edge is not its first edge and
\* loses height by the occluder rounding, with a short edge that keeps height 1
C27_Witness ==
    /\ pc = "rendered"
    /\ probeOut.done
    /\ _createEdgesForTriangle(TriangleEdges(clipIn))[1] # 1
    /\ Lt(Height(OccluderEdges(TriangleEdges(clipIn)).long),
          Height(OccluderEdges(TriangleEdges(clipIn)).rawLong))
    /\ \E short \in {OccluderEdges(TriangleEdges(clipIn)).short1,
                     OccluderEdges(TriangleEdges(clipIn)).short2} : Height(short) = I(1)
    /\ Height(OccluderEdges(TriangleEdges(clipIn)).long) = I(1)

-----------------------------------------------------------------------------
(* The probe against smaller and greater depth data *)

\* depth data with line y lowered below every probe depth
LoweredLine(depth, y) == [p \in Pixels |-> IF p \div width = y THEN I(-1) ELSE depth[p]]

\* depth data with column x raised to the nearest depth
RaisedColumn(depth, x) == [p \in Pixels |-> IF p % width = x THEN I(1) ELSE depth[p]]

\* depth data that are pointwise <= depth: the cleared buffer and depth with
\* one line lowered
SmallerBuffers(depth) == {ZeroBuffer} \cup {LoweredLine(depth, y) : y \in 0.._clipY}

\* the depth data after render(TriSceneList)
SceneDepthData == RenderAll(TriSceneList)

\* depth data that are pointwise >= depth: depth with one column raised, and
\* the greater of depth and the depth data of the scene, which is what
\* rendering the scene on top of depth stores
GreaterBuffers(depth) ==
    {PointwiseMax(depth, SceneDepthData)} \cup {RaisedColumn(depth, x) : x \in 0.._clipX}

\* C28: the probe is monotone in the depth data: with D1[p] <= D2[p] at every
\* pixel, a triangle reported occluded under D1 is reported occluded under D2;
\* rendering more occluders never turns an occluded triangle visible.
C28_ProbeMonotoneInDepthData ==
    probeOut.done =>
        /\ \A d1 \in SmallerBuffers(depthData) :
               /\ PointwiseLe(d1, depthData)
               /\ isRenderedTriangleOccluded(d1, clipIn) => probeOut.occluded
        /\ \A d2 \in GreaterBuffers(depthData) :
               /\ PointwiseLe(depthData, d2)
               /\ probeOut.occluded => isRenderedTriangleOccluded(d2, clipIn)

\* a triangle occluded by its own rendering and visible once a line is
\* lowered, and, on the cleared buffer, visible and occluded once the scene is
\* rendered
C28_Witness ==
    /\ probeOut.done
    /\ \/ /\ pc = "rendered"
          /\ probeOut.occluded
          /\ \E y \in 0.._clipY : ~isRenderedTriangleOccluded(LoweredLine(depthData, y), clipIn)
       \/ /\ pc = "idle"
          /\ ~probeOut.occluded
          /\ isRenderedTriangleOccluded(PointwiseMax(depthData, SceneDepthData), clipIn)

-----------------------------------------------------------------------------
(* InFrustumAction: an action of a state machine that sends 'inside' or      *)
(* 'outside' each time it runs.  instance is the action, clipIn the settings *)
(* it was made from and the owner entity as the frame finds it, clipOut the  *)
(* state machine's record of the calls of _run and of the sends it got.      *)

MaxFrames == 2

\* Camera.Outside, Camera.Inside, Camera.Intersects
CameraOutside == "Outside"
CameraAnswers == {"Outside", "Inside", "Intersects"}

\* the names getEntityByName finds a camera entity for
CameraEntities == {"cameraEntity"}

\* settings of the action: 'current' and 'cameraEntityRef' (default null)
FrustumSettings == [current : BOOLEAN, cameraEntityRef : {"null", "cameraEntity"}]

\* the owner entity of one frame: isVisible, whether it has a
\* meshDataComponent, and what camera.contains answers for its modelBound and
\* for the small sphere at its translation
FrustumEntities ==
    [isVisible : {"true", "false", "undefined"}, meshDataComponent : BOOLEAN,
     containsModelBound : CameraAnswers, containsSphere : CameraAnswers]

\* new InFrustumAction(id, settings): Action.apply copies the settings
InFrustumAction(settings) ==
    [thrown |-> "none", current |-> settings.current,
     cameraEntityRef |-> settings.cameraEntityRef, camera |-> "undefined",
     transitions |-> [inside |-> "inside", outside |-> "outside"]]

\* if (!this.current) { this.camera = getEntityByName(ref).cameraComponent.camera }
_setup(action) ==
    IF action.current THEN action
    ELSE IF action.cameraEntityRef \in CameraEntities
    THEN [action EXCEPT !.camera = action.cameraEntityRef]
    ELSE [action EXCEPT !.thrown = "TypeError"]

\* entity.meshDataComponent ? modelBound : new BoundingSphere(translation, 0.001),
\* then this.camera.contains(boundingVolume)
CameraContains(entity) ==
    IF entity.meshDataComponent THEN entity.containsModelBound ELSE entity.containsSphere

\* the transition sent whatever contains answers but 'Inside'
_run_insideOnly(action, entity) ==
    IF action.current
    THEN IF entity.isVisible = "true" THEN <<action.transitions.inside>>
         ELSE <<action.transitions.outside>>
    ELSE IF CameraContains(entity) # "Inside" THEN <<action.transitions.outside>>
         ELSE <<action.transitions.inside>>

\* _run(fsm): the sequence of fsm.send calls it makes
_run(action, entity) ==
    IF action.current
    THEN IF entity.isVisible = "true" THEN <<action.transitions.inside>>
         ELSE <<action.transitions.outside>>
    ELSE IF CameraContains(entity) = CameraOutside THEN <<action.transitions.outside>>
         ELSE <<action.transitions.inside>>

InitFrustum ==
    /\ depthData = ZeroBuffer
    /\ depthClear = ZeroBuffer
    /\ pc = "new"
    /\ renderList = <<>>
    /\ renderIdx = 0
    /\ cullList = <<>>
    /\ cullIdx = 0
    /\ cull = "undefined"
    /\ visibleEntities = <<>>
    /\ depthAtCall = ZeroBuffer
    /\ probed = {}
    /\ pushed = {}
    /\ clipIn \in [settings : FrustumSettings, entity : FrustumEntities]
    /\ clipOut = [calls |-> 0, sent |-> <<>>]
    /\ probeOut = [done |-> FALSE]
    /\ instance = NoInstance

\* new InFrustumAction(id, settings)
FrustumConstruct ==
    /\ pc = "new"
    /\ instance' = InFrustumAction(clipIn.settings)
    /\ pc' = "constructed"
    /\ UNCHANGED <<depthData, depthClear, renderList, renderIdx, cullList, cullIdx, cull,
                   visibleEntities, depthAtCall, probed, pushed, clipIn, clipOut, probeOut>>

\* _setup(fsm) when the state is entered; a TypeError leaves the action unrun
FrustumSetup ==
    /\ pc = "constructed"
    /\ instance' = _setup(instance)
    /\ pc' = IF _setup(instance).thrown = "none" THEN "ready" ELSE _setup(instance).thrown
    /\ UNCHANGED <<depthData, depthClear, renderList, renderIdx, cullList, cullIdx, cull,
                   visibleEntities, depthAtCall, probed, pushed, clipIn, clipOut, probeOut>>

\* one frame: _run(fsm)
FrustumRun ==
    /\ pc = "ready"
    /\ clipOut.calls < MaxFrames
    /\ clipOut' = [calls |-> clipOut.calls + 1,
                   sent |-> clipOut.sent \o _run(instance, clipIn.entity)]
    /\ UNCHANGED <<clipIn, probeOut, rendererVars, instance>>

\* between two frames the entity moves, is shown or hidden, gets or loses its
\* mesh
FrustumMove ==
    /\ pc = "ready"
    /\ clipOut.calls > 0
    /\ clipOut.calls < MaxFrames
    /\ \E entity \in FrustumEntities : clipIn' = [clipIn EXCEPT !.entity = entity]
    /\ UNCHANGED <<clipOut, probeOut, rendererVars, instance>>

NextFrustum == FrustumConstruct \/ FrustumSetup \/ FrustumRun \/ FrustumMove

SpecFrustum == InitFrustum /\ [][NextFrustum]_vars

\* the transition the statement names for the action and the entity
ExpectedTransition(action, entity) ==
    IF action.current
    THEN IF entity.isVisible = "true" THEN "inside" ELSE "outside"
    ELSE IF CameraContains(entity) = "Outside" THEN "outside" ELSE "inside"

\* C29: each call of _run sends exactly one transition, 'inside' or 'outside':
\* with 'current' set it is 'inside' exactly when entity.isVisible holds,
\* otherwise it is 'outside' exactly when the camera's contains(bounding volume)
\* is Camera.Outside.
C29_RunSendsExactlyOne ==
    [][clipOut'.calls # clipOut.calls =>
           /\ clipOut'.calls = clipOut.calls + 1
           /\ Len(clipOut'.sent) = Len(clipOut.sent) + 1
           /\ SubSeq(clipOut'.sent, 1, Len(clipOut.sent)) = clipOut.sent
           /\ clipOut'.sent[Len(clipOut'.sent)] \in {"inside", "outside"}
           /\ clipOut'.sent[Len(clipOut'.sent)] = ExpectedTransition(instance, clipIn.entity)]_vars

\* two frames of an action with its own camera: the entity's modelBound
\* intersects the frustum in the first ('inside' sent) and the entity, its mesh
\* gone, is outside in the second ('outside' sent)
C29_Witness ==
    /\ pc = "ready"
    /\ ~instance.current
    /\ clipOut.calls = 2
    /\ clipOut.sent = <<"inside", "outside">>
    /\ ~clipIn.entity.meshDataComponent
    /\ clipIn.entity.containsSphere = "Outside"
    /\ clipIn.entity.containsModelBound = "Intersects"

-----------------------------------------------------------------------------
(* TransformChannel: ten keyframe arrays, one interpolator for each array    *)
(* the constructor accepts, defaults for the others.  instance is the        *)
(* channel, clipIn the constructor's arguments, clipOut the TransformData    *)
(* that setCurrentSample writes.  A JavaScript value that may be undefined   *)
(* is [defined, value].                                                      *)

Undefined == [defined |-> FALSE, value |-> 0]
Num(v) == [defined |-> TRUE, value |-> v]

Components ==
    {"translationX", "translationY", "translationZ", "rotationX", "rotationY",
     "rotationZ", "rotationW", "scaleX", "scaleY", "scaleZ"}

\* an argument of the constructor: left out, an empty array, or the flat
\* array [time, value, tangentIn, tangentOut, ...] of two keyframes
NoArray == [given |-> FALSE, data |-> <<>>]
EmptyArray == [given |-> TRUE, data |-> <<>>]
TwoKeyframes == [given |-> TRUE, data |-> <<0, 4, 0, 0, 2, 8, 0, 0>>]
KeyframeArrays == {NoArray, EmptyArray, TwoKeyframes}

SampleTimes == {0, 1}

\* the transform handed to setDefaultData: translation, the quaternion of its
\* rotation, scale
DefaultTransform ==
    [translationX |-> 11, translationY |-> 12, translationZ |-> 13,
     rotationX |-> 14, rotationY |-> 15, rotationZ |-> 16, rotationW |-> 17,
     scaleX |-> 18, scaleY |-> 19, scaleZ |-> 20]

\* for (i = 0; i < data.length; i += 4) ret.push({time, value, tangentIn, tangentOut})
RECURSIVE StructuredFrom(_, _)
StructuredFrom(data, i) ==
    IF i > Len(data) THEN <<>>
    ELSE <<[time |-> data[i], value |-> data[i + 1], tangentIn |-> data[i + 2],
            tangentOut |-> data[i + 3]]>> \o StructuredFrom(data, i + 4)

getStructuredArray(array) == IF ~array.given THEN <<>> ELSE StructuredFrom(array.data, 1)

\* the array whose length the constructor tests for component c
TestedArray(c) ==
    IF c \in {"rotationY", "rotationZ", "rotationW"} THEN "rotationX"
    ELSE IF c \in {"scaleY", "scaleZ"} THEN "scaleX"
    ELSE c

\* `array && tested.length` reads the length of undefined
ThrowsFor(arguments, c) == arguments[c].given /\ ~arguments[TestedArray(c)].given

\* if (array && tested.length) { this._c = new interpolator(getStructuredArray(array)) }
InterpolatorFor(arguments, c) ==
    IF arguments[c].given /\ Len(arguments[TestedArray(c)].data) # 0
    THEN [present |-> TRUE, keyframes |-> getStructuredArray(arguments[c])]
    ELSE [present |-> FALSE, keyframes |-> <<>>]

TransformChannel(arguments) ==
    IF \E c \in Components : ThrowsFor(arguments, c)
    THEN [thrown |-> "TypeError"]
    ELSE [thrown |-> "none",
          interpolators |-> [c \in Components |-> InterpolatorFor(arguments, c)],
          defaults |-> [c \in Components |-> Undefined]]

\* if (!this._c) { this._cDefault = the transform's value }
setDefaultData(channel, transform) ==
    [channel EXCEPT !.defaults =
        [c \in Components |->
            IF ~channel.interpolators[c].present THEN Num(transform[c])
            ELSE channel.defaults[c]]]

\* the interpolator's value at `time`: the value of the keyframes joined by
\* straight lines, that of the first or last keyframe outside them, undefined
\* without keyframes
RECURSIVE getAtFrom(_, _, _)
getAtFrom(keyframes, k, time) ==
    IF k = Len(keyframes) \/ time <= keyframes[k].time THEN Num(keyframes[k].value)
    ELSE IF time < keyframes[k + 1].time
    THEN Num(keyframes[k].value
             + ((keyframes[k + 1].value - keyframes[k].value) * (time - keyframes[k].time))
                   \div (keyframes[k + 1].time - keyframes[k].time))
    ELSE getAtFrom(keyframes, k + 1, time)

getAt(keyframes, time) == IF keyframes = <<>> THEN Undefined ELSE getAtFrom(keyframes, 1, time)

\* if (this._c) { data = this._c.getAt(time) } else { data = this._cDefault }
SampleOf(channel, c, time) ==
    IF channel.interpolators[c].present
    THEN getAt(channel.interpolators[c].keyframes, time)
    ELSE channel.defaults[c]

\* transformData._rotation.normalize(): the quaternion of length 1 along q,
\* kept as the quaternion it was made from
normalize(q) == [along |-> q]

setCurrentSample(channel, time) ==
    [translation |-> <<SampleOf(channel, "translationX", time),
                       SampleOf(channel, "translationY", time),
                       SampleOf(channel, "translationZ", time)>>,
     rotation |-> normalize(<<SampleOf(channel, "rotationX", time),
                              SampleOf(channel, "rotationY", time),
                              SampleOf(channel, "rotationZ", time),
                              SampleOf(channel, "rotationW", time)>>),
     scale |-> <<SampleOf(channel, "scaleX", time), SampleOf(channel, "scaleY", time),
                 SampleOf(channel, "scaleZ", time)>>,
     time |-> time]

InitChannel ==
    /\ depthData = ZeroBuffer
    /\ depthClear = ZeroBuffer
    /\ pc = "new"
    /\ renderList = <<>>
    /\ renderIdx = 0
    /\ cullList = <<>>
    /\ cullIdx = 0
    /\ cull = "undefined"
    /\ visibleEntities = <<>>
    /\ depthAtCall = ZeroBuffer
    /\ probed = {}
    /\ pushed = {}
    /\ clipIn \in [Components -> KeyframeArrays]
    /\ clipOut = [done |-> FALSE]
    /\ probeOut = [done |-> FALSE]
    /\ instance = NoInstance

\* new TransformChannel(channelName, translationX, ..., scaleZ, blendType)
ChannelConstruct ==
    /\ pc = "new"
    /\ instance' = TransformChannel(clipIn)
    /\ pc' = IF TransformChannel(clipIn).thrown = "none" THEN "constructed"
             ELSE TransformChannel(clipIn).thrown
    /\ UNCHANGED <<depthData, depthClear, renderList, renderIdx, cullList, cullIdx, cull,
                   visibleEntities, depthAtCall, probed, pushed, clipIn, clipOut, probeOut>>

\* setDefaultData(transform)
ChannelDefaults ==
    /\ pc = "constructed"
    /\ instance' = setDefaultData(instance, DefaultTransform)
    /\ pc' = "defaults"
    /\ UNCHANGED <<depthData, depthClear, renderList, renderIdx, cullList, cullIdx, cull,
                   visibleEntities, depthAtCall, probed, pushed, clipIn, clipOut, probeOut>>

\* setCurrentSample(sampleIndex, fraction, applyTo, time)
ChannelSample ==
    /\ pc = "defaults"
    /\ ~clipOut.done
    /\ \E time \in SampleTimes :
          clipOut' = [done |-> TRUE, applyTo |-> setCurrentSample(instance, time)]
    /\ UNCHANGED <<clipIn, probeOut, rendererVars, instance>>

NextChannel == ChannelConstruct \/ ChannelDefaults \/ ChannelSample

SpecChannel == InitChannel /\ [][NextChannel]_vars

\* the component's own keyframe array is given and not empty
OwnArrayGiven(arguments, c) == arguments[c].given /\ Len(arguments[c].data) # 0

\* the value the statement names for component c: that of an interpolator
\* over the component's own keyframes, or the default of the transform
NamedSample(arguments, c, time) ==
    IF OwnArrayGiven(arguments, c) THEN getAt(getStructuredArray(arguments[c]), time)
    ELSE Num(DefaultTransform[c])

NamedTransformData(arguments, time) ==
    [translation |-> <<NamedSample(arguments, "translationX", time),
                       NamedSample(arguments, "translationY", time),
                       NamedSample(arguments, "translationZ", time)>>,
     rotation |-> normalize(<<NamedSample(arguments, "rotationX", time),
                              NamedSample(arguments, "rotationY", time),
                              NamedSample(arguments, "rotationZ", time),
                              NamedSample(arguments, "rotationW", time)>>),
     scale |-> <<NamedSample(arguments, "scaleX", time), NamedSample(arguments, "scaleY", time),
                 NamedSample(arguments, "scaleZ", time)>>,
     time |-> time]

\* C30: a TransformChannel has an interpolator for a component exactly when
\* that component's own keyframe array is given and not empty, whatever the
\* other arrays are; setCurrentSample writes the interpolator's value at the
\* time for such a component and the default of setDefaultData for the others
\* (the rotation then normalised).
C30_InterpolatorIffOwnArray ==
    /\ pc \in {"constructed", "defaults"} =>
           \A c \in Components : instance.interpolators[c].present <=> OwnArrayGiven(clipIn, c)
    /\ (pc = "defaults" /\ clipOut.done) =>
           clipOut.applyTo = NamedTransformData(clipIn, clipOut.applyTo.time)

\* the same for the translation and for rotationX and scaleX, whose own
\* length the constructor tests
OwnTested == {c \in Components : TestedArray(c) = c}

InterpolatorIffOwnArrayWhereTested ==
    pc \in {"constructed", "defaults"} =>
        \A c \in OwnTested : instance.interpolators[c].present <=> OwnArrayGiven(clipIn, c)

====
